---- MODULE Spec2Model ----
(***************************************************************************)
(* A model of the litematic-editor region codec: the packed bit-array      *)
(* helpers (src/src/region/utils.rs), the volume geometry                  *)
(* (src/src/volume.rs, src/src/vector.rs), block states                    *)
(* (src/src/block_state.rs) and Region (src/src/region/region.rs).         *)
(*                                                                         *)
(* A 64-bit word (i64 / u64 / usize) is the set of its set bit positions,  *)
(* a subset of 0..63, bit 63 being the sign bit of an i64.  Bitwise        *)
(* operations are then set operations and keep their full width.           *)
(***************************************************************************)
EXTENDS Integers, Sequences, FiniteSets, TLC

VARIABLES array, call, region, nbt, decoded, phase, edits

vars == <<array, call, region, nbt, decoded, phase, edits>>

----------------------------------------------------------------------------
(* Outcomes of a call: a value, an Err(..) result, or the panic the Rust   *)
(* code aborts with.                                                       *)

Ok(v) == [status |-> "ok", value |-> v]

Err(e) == [status |-> "err", error |-> e]

Panic == [status |-> "panic"]

IsOk(r) == r.status = "ok"

----------------------------------------------------------------------------
(* 64-bit words as sets of bit positions.                                  *)

WordBits == 64

BitPositions == 0 .. (WordBits - 1)

SignBit == WordBits - 1

RECURSIVE Pow2(_)
Pow2(k) == IF k = 0 THEN 1 ELSE 2 * Pow2(k - 1)

(* (1_i64 << b) - 1_i64, for 0 <= b < 63; at b = 64, a width only a build  *)
(* without overflow checks reaches, the shift amount wraps to 0            *)
LowMask(b) == 0 .. ((b % WordBits) - 1)

(* i64::rotate_left *)
RotateLeft(w, k) == { (p + k) % WordBits : p \in w }

(* i64 << k for k < 64: bits shifted past bit 63 are dropped *)
ShiftLeft(w, k) == { p + k : p \in { q \in w : q + k < WordBits } }

(* i64 >> k for k < 64: arithmetic, the sign bit is copied into the top k bits *)
ShiftRight(w, k) ==
    { p - k : p \in { q \in w : q >= k } }
        \cup (IF SignBit \in w THEN (WordBits - k) .. SignBit ELSE {})

(* i64::checked_shl(k).unwrap_or(0): None when k >= 64 *)
CheckedShlOrZero(w, k) == IF k >= WordBits THEN {} ELSE ShiftLeft(w, k)

(* i64::checked_shr(k).unwrap_or(0): None when k >= 64 *)
CheckedShrOrZero(w, k) == IF k >= WordBits THEN {} ELSE ShiftRight(w, k)

(* !w *)
BitNot(w) == BitPositions \ w

(* the word holding a small non-negative integer *)
WordOfNat(n) == { p \in 0 .. 30 : (n \div Pow2(p)) % 2 = 1 }

RECURSIVE SumPow2(_)
SumPow2(w) ==
    IF w = {} THEN 0
    ELSE LET p == CHOOSE q \in w : TRUE IN Pow2(p) + SumPow2(w \ {p})

(* the integer a word holds, defined when it fits 31 bits *)
FitsNat(w) == w \subseteq 0 .. 30

NatOfWord(w) == SumPow2(w)

(* a word written as 16 hexadecimal digits, most significant first *)
HexWord(ds) ==
    { 4 * (16 - k) + j : k \in 1 .. 16, j \in 0 .. 3 } \cap
    { p \in BitPositions : (ds[16 - (p \div 4)] \div Pow2(p % 4)) % 2 = 1 }

----------------------------------------------------------------------------
(* Region::calculate_bits and Region::calculate_amt_of_longs               *)

MinBits == 2

RECURSIVE BitLength(_)
(* usize::BITS - n.leading_zeros() *)
BitLength(n) == IF n = 0 THEN 0 ELSE 1 + BitLength(n \div 2)

Max(a, b) == IF a >= b THEN a ELSE b

Min(a, b) == IF a <= b THEN a ELSE b

calculate_bits_off_by_one(parsed_palette_length) ==
    Max(BitLength(parsed_palette_length), MinBits)

(* Region::calculate_bits of a length of at least 1 *)
calculate_bits(parsed_palette_length) ==
    Max(BitLength(parsed_palette_length - 1), MinBits)

(* the two builds of the program: with overflow checks (debug) and without *)
(* them (release)                                                          *)
Builds == {"debug", "release"}

(* Region::calculate_bits of any length in a given build: at length 0 the  *)
(* usize subtraction parsed_palette_length - 1 panics with overflow checks *)
(* and wraps to usize::MAX, which has no leading zero, without them        *)
calculate_bits_in(parsed_palette_length, build) ==
    IF parsed_palette_length = 0
    THEN IF build = "debug" THEN Panic ELSE Ok(Max(WordBits, MinBits))
    ELSE Ok(calculate_bits(parsed_palette_length))

(* i32 arithmetic.  The product region_volume * bits is computed in 16-bit  *)
(* halves so that the exact 32-bit wrap-around is known without leaving     *)
(* the integer range: region_volume = hi * 2^16 + lo.                       *)
Half == Pow2(16)

I32Max == 2147483647

MulOverflowsI32(a, b) == b > 0 /\ a > I32Max \div b

WrappingMulI32(a, b) ==
    LET lo   == (a % Half) * b
        hi   == ((a \div Half) * b + (lo \div Half)) % Half
        low  == lo % Half
    IN  IF hi >= Half \div 2 THEN (hi - Half) * Half + low ELSE hi * Half + low

(* Rust's / and % on i32 truncate toward zero *)
TruncDiv(a, b) ==
    IF a >= 0 \/ a % b = 0 THEN a \div b ELSE (a \div b) + 1

TruncRem(a, b) == a - b * TruncDiv(a, b)

AmtOfLongsFrom(bits_required) ==
    TruncDiv(bits_required, WordBits)
        + (IF TruncRem(bits_required, WordBits) = 0 THEN 0 ELSE 1)

(* The outcomes of calculate_amt_of_longs: `region_volume * bits as i32`    *)
(* panics on overflow in a build with overflow checks and wraps in one      *)
(* without.                                                                 *)
calculate_amt_of_longs(region_volume, bits) ==
    IF MulOverflowsI32(region_volume, bits)
    THEN { Panic, Ok(AmtOfLongsFrom(WrappingMulI32(region_volume, bits))) }
    ELSE { Ok(AmtOfLongsFrom(region_volume * bits)) }

----------------------------------------------------------------------------
(* Region::get_index_out_of_packed_array, Region::set_index_in_packed_array *)
(* `array` is a sequence of words; Rust's array[k] is array[k + 1] here.    *)

get_index_out_of_packed_array(arr, position_in_array, bits_per_position) ==
    LET pos         == position_in_array * bits_per_position
        pos_in_long == pos % WordBits
        index       == pos \div WordBits
        bitmap      == RotateLeft(LowMask(bits_per_position), pos_in_long)
    IN  IF index >= Len(arr) THEN Panic
        ELSE LET first == ShiftRight(arr[index + 1] \cap bitmap, pos_in_long)
                 second ==
                     IF index < Len(arr) - 1
                     THEN CheckedShlOrZero(arr[index + 2] \cap bitmap,
                                           WordBits - pos_in_long)
                     ELSE {}
             IN  Ok(first \cup second)

set_index_rotated_mask(arr, value, position_in_array, bits_per_position) ==
    LET pos           == position_in_array * bits_per_position
        pos_in_long   == pos % WordBits
        index         == pos \div WordBits
        bitmap        == RotateLeft(LowMask(bits_per_position), pos_in_long)
        rotated_value == RotateLeft(value, pos_in_long)
    IN  IF index >= Len(arr) THEN Panic
        ELSE LET a1 == [arr EXCEPT ![index + 1] =
                            (@ \cap BitNot(bitmap)) \cup (rotated_value \cap bitmap)]
             IN  IF index < Len(arr) - 1
                 THEN Ok([a1 EXCEPT ![index + 2] =
                            (@ \cap BitNot(bitmap)) \cup (rotated_value \cap bitmap)])
                 ELSE Ok(a1)

set_index_in_packed_array(arr, value, position_in_array, bits_per_position) ==
    LET pos           == position_in_array * bits_per_position
        pos_in_long   == pos % WordBits
        index         == pos \div WordBits
        bitmap_1      == ShiftLeft(LowMask(bits_per_position), pos_in_long)
        rotated_value == RotateLeft(value, pos_in_long)
    IN  IF index >= Len(arr) THEN Panic
        ELSE LET a1 == [arr EXCEPT ![index + 1] =
                            (@ \cap BitNot(bitmap_1)) \cup (rotated_value \cap bitmap_1)]
                 bitmap_2 == CheckedShrOrZero(LowMask(bits_per_position),
                                              WordBits - pos_in_long)
             IN  IF index < Len(arr) - 1
                 THEN Ok([a1 EXCEPT ![index + 2] =
                            (@ \cap BitNot(bitmap_2)) \cup (rotated_value \cap bitmap_2)])
                 ELSE Ok(a1)

----------------------------------------------------------------------------
(* BlockState (src/src/block_state.rs).  A string is the sequence of its   *)
(* characters; a property map is the set of its <<key, value>> entries.    *)

UpperCase == <<"A", "B", "C", "D", "E", "F", "G", "H", "I", "J", "K", "L", "M",
               "N", "O", "P", "Q", "R", "S", "T", "U", "V", "W", "X", "Y", "Z">>

LowerCase == <<"a", "b", "c", "d", "e", "f", "g", "h", "i", "j", "k", "l", "m",
               "n", "o", "p", "q", "r", "s", "t", "u", "v", "w", "x", "y", "z">>

ToLowerChar(c) ==
    IF \E k \in DOMAIN UpperCase : UpperCase[k] = c
    THEN LowerCase[CHOOSE k \in DOMAIN UpperCase : UpperCase[k] = c]
    ELSE c

(* str::to_lowercase *)
to_lowercase(name) == [k \in DOMAIN name |-> ToLowerChar(name[k])]

(* str::contains(":") *)
ContainsColon(name) == \E k \in DOMAIN name : name[k] = ":"

MinecraftPrefix == <<"m", "i", "n", "e", "c", "r", "a", "f", "t", ":">>

(* prefix_block_name that lowers only a name it prefixes *)
prefix_block_name_keeps_namespaced(name) ==
    IF ~ContainsColon(name) THEN to_lowercase(MinecraftPrefix \o name) ELSE name

prefix_block_name(name) ==
    IF ~ContainsColon(name)
    THEN to_lowercase(MinecraftPrefix \o name)
    ELSE to_lowercase(name)

None == [some |-> FALSE]

Some(v) == [some |-> TRUE, value |-> v]

(* BlockState::new(block, properties) *)
BlockStateNew(block, properties) ==
    [block |-> prefix_block_name(block),
     properties |-> IF properties.some THEN properties.value ELSE {}]

(* BlockState::get_block *)
get_block(state) == state.block

(* BlockState::set_block *)
BlockStateSetBlock(state, block) == [state EXCEPT !.block = prefix_block_name(block)]

AirName == <<"a", "i", "r">>

(* BlockState::new("air", None) *)
Air == BlockStateNew(AirName, None)

----------------------------------------------------------------------------
(* Vector3<i32> (src/src/vector.rs): the tuple <<x, y, z>>.                *)

Axes == 1 .. 3

VecAdd(a, b) == [i \in Axes |-> a[i] + b[i]]

VecSub(a, b) == [i \in Axes |-> a[i] - b[i]]

Abs(n) == IF n < 0 THEN -n ELSE n

(* Vector3::volume *)
VecVolume(v) == Abs(v[1] * v[2] * v[3])

fits_in_positive(v, other) == \A i \in Axes : v[i] >= other[i]

fits_in_negative(v, other) == \A i \in Axes : v[i] <= other[i]

ZeroVec == <<0, 0, 0>>

OneVec == <<1, 1, 1>>

----------------------------------------------------------------------------
(* Volume (src/src/volume.rs): the record of its two corners.              *)

(* Volume::new(pos, size) *)
VolumeNew(pos, size) == [pos1 |-> pos, pos2 |-> VecAdd(pos, size)]

(* Volume::default() *)
VolumeDefault == [pos1 |-> ZeroVec, pos2 |-> ZeroVec]

origin(vol) == vol.pos1

size(vol) == VecSub(vol.pos2, vol.pos1)

(* Volume::volume *)
VolumeOf(vol) == VecVolume(VecSub(vol.pos2, vol.pos1))

(* one axis of expand_to_fit that, on an axis of size zero, stops at the   *)
(* vector instead of one past it                                           *)
ExpandAxis_stops_at_vector(p1, p2, v) ==
    IF p1 < p2
    THEN <<IF v < p1 THEN v ELSE p1, IF v + 1 > p2 THEN v + 1 ELSE p2>>
    ELSE IF p1 > p2
         THEN <<IF v + 1 > p1 THEN v + 1 ELSE p1, IF v < p2 THEN v ELSE p2>>
         ELSE <<p1, v>>

(* one axis of Volume::expand_to_fit: the new <<pos1[i], pos2[i]>> *)
ExpandAxis(p1, p2, v) ==
    IF p1 < p2
    THEN <<IF v < p1 THEN v ELSE p1, IF v + 1 > p2 THEN v + 1 ELSE p2>>
    ELSE IF p1 > p2
         THEN <<IF v + 1 > p1 THEN v + 1 ELSE p1, IF v < p2 THEN v ELSE p2>>
         ELSE IF v >= p1 THEN <<p1, v + 1>> ELSE <<p1, v>>

expand_to_fit(vol, vector) ==
    [pos1 |-> [i \in Axes |-> ExpandAxis(vol.pos1[i], vol.pos2[i], vector[i])[1]],
     pos2 |-> [i \in Axes |-> ExpandAxis(vol.pos1[i], vol.pos2[i], vector[i])[2]]]

(* make_size_positive exchanging the two corners whole *)
make_size_positive_swaps_corners(vol) ==
    IF \E i \in Axes : vol.pos1[i] > vol.pos2[i]
    THEN [pos1 |-> vol.pos2, pos2 |-> vol.pos1]
    ELSE vol

make_size_positive(vol) ==
    [pos1 |-> [i \in Axes |-> Min(vol.pos1[i], vol.pos2[i])],
     pos2 |-> [i \in Axes |-> Max(vol.pos1[i], vol.pos2[i])]]

(* expand_to_fit_volume fitting only the first corner of the other volume *)
expand_to_fit_volume_first_corner(vol, other) ==
    expand_to_fit(vol, make_size_positive(other).pos1)

(* Volume::expand_to_fit_volume *)
expand_to_fit_volume(vol, other) ==
    LET volume_positive == make_size_positive(other)
    IN  expand_to_fit(expand_to_fit(vol, volume_positive.pos1),
                      VecSub(volume_positive.pos2, OneVec))

----------------------------------------------------------------------------
(* Region::index_to_coords and Region::coords_to_index                     *)

(* index / (d as u64) and index % (d as u64) for an i32 d: a negative d    *)
(* becomes a u64 above every index the model uses.                         *)
DivAsU64(index, d) == IF d < 0 THEN 0 ELSE index \div d

RemAsU64(index, d) == IF d < 0 THEN index ELSE index % d

(* index_to_coords taking z before x within a layer *)
index_to_coords_z_fastest(sz, index) ==
    IF VecVolume(sz) <= index THEN None
    ELSE LET y == DivAsU64(index, sz[1] * sz[3])
             x == DivAsU64(RemAsU64(index, sz[1] * sz[3]), sz[3])
             z == RemAsU64(RemAsU64(index, sz[1] * sz[3]), sz[3])
         IN  Some(<<x, y, z>>)

index_to_coords(sz, index) ==
    IF VecVolume(sz) <= index THEN None
    ELSE LET y == DivAsU64(index, sz[1] * sz[3])
             z == DivAsU64(RemAsU64(index, sz[1] * sz[3]), sz[1])
             x == RemAsU64(RemAsU64(index, sz[1] * sz[3]), sz[1])
         IN  Some(<<x, y, z>>)

(* coords_to_index without the upper range test *)
coords_to_index_no_upper_test(sz, pos) ==
    IF ~fits_in_positive(pos, ZeroVec)
    THEN None
    ELSE Some(pos[2] * sz[1] * sz[3] + pos[3] * sz[1] + pos[1])

coords_to_index(sz, pos) ==
    IF ~fits_in_positive(pos, ZeroVec) \/ ~fits_in_negative(pos, VecSub(sz, OneVec))
    THEN None
    ELSE Some(pos[2] * sz[1] * sz[3] + pos[3] * sz[1] + pos[1])

----------------------------------------------------------------------------
(* VolumeIterator (src/src/volume.rs): the record of its volume and its    *)
(* current_pos.                                                            *)

(* Volume::iter *)
volume_iter(vol) == [volume |-> make_size_positive(vol), current_pos |-> 0]

(* VolumeIterator::next that leaves out the corner of the volume *)
volume_iterator_next_from_zero(it) ==
    [ret |-> index_to_coords(size(it.volume), it.current_pos),
     iterator |-> [it EXCEPT !.current_pos = @ + 1]]

(* VolumeIterator::next: the value returned and the iterator afterwards *)
volume_iterator_next(it) ==
    LET found == index_to_coords(size(it.volume), it.current_pos)
    IN  [ret |-> IF found.some THEN Some(VecAdd(found.value, it.volume.pos1)) ELSE None,
         iterator |-> [it EXCEPT !.current_pos = @ + 1]]

----------------------------------------------------------------------------
(* The NBT shapes the codec reads and writes.  A field of a compound is a  *)
(* record [kind, ...]: kind "Missing" when the field is absent, the tag's  *)
(* type otherwise.                                                         *)

StringTag(text) == [kind |-> "String", text |-> text]

(* Into<NbtTag> for &BlockState *)
BlockStateToNbt(state) ==
    [kind |-> "Compound",
     name |-> StringTag(state.block),
     properties |->
         IF state.properties # {}
         THEN [kind |-> "Compound",
               entries |-> { <<e[1], StringTag(e[2])>> : e \in state.properties }]
         ELSE [kind |-> "Missing", entries |-> {}]]

(* BlockState::new_from_nbt *)
BlockStateNewFromNbt(data) ==
    IF data.properties.kind \notin {"Compound", "Missing"}
    THEN Err("BlockState.WrongTag(Properties)")
    ELSE IF data.name.kind # "String"
         THEN Err("BlockState.NonexistentTag(Name)")
         ELSE Ok([block |-> prefix_block_name(data.name.text),
                  properties |->
                      { <<e[1], e[2].text>> :
                            e \in { f \in data.properties.entries :
                                        f[2].kind = "String" } }])

(* parse_palette leaving out the elements that are not compounds *)
RECURSIVE ParsePaletteFrom_skips_other_tags(_, _, _)
ParsePaletteFrom_skips_other_tags(palette, k, parsed_palette) ==
    IF k > Len(palette) THEN Ok(parsed_palette)
    ELSE IF palette[k].kind # "Compound"
         THEN ParsePaletteFrom_skips_other_tags(palette, k + 1, parsed_palette)
         ELSE LET state == BlockStateNewFromNbt(palette[k])
              IN  IF ~IsOk(state) THEN state
                  ELSE ParsePaletteFrom_skips_other_tags(palette, k + 1,
                                                         Append(parsed_palette, state.value))

RECURSIVE ParsePaletteFrom(_, _, _)
ParsePaletteFrom(palette, k, parsed_palette) ==
    IF k > Len(palette) THEN Ok(parsed_palette)
    ELSE IF palette[k].kind # "Compound"
         THEN Err("BlockState.WrongTag(BlockStatePalette)")
         ELSE LET state == BlockStateNewFromNbt(palette[k])
              IN  IF ~IsOk(state) THEN state
                  ELSE ParsePaletteFrom(palette, k + 1,
                                        Append(parsed_palette, state.value))

(* Region::parse_palette *)
parse_palette(palette) == ParsePaletteFrom(palette, 1, <<>>)

----------------------------------------------------------------------------
(* Region (src/src/region/region.rs, src/src/region/utils.rs).  The block  *)
(* map is a function from coordinates to block states.                     *)

EmptyMap == [c \in {} |-> Air]

(* Region::new() *)
RegionNew ==
    [volume |-> VolumeDefault,
     blocks |-> EmptyMap,
     entities |-> None,
     pending_block_ticks |-> None,
     pending_fluid_ticks |-> None,
     tile_entities |-> None]

MapInsert(m, k, v) == [c \in DOMAIN m \cup {k} |-> IF c = k THEN v ELSE m[c]]

MapRemove(m, k) == [c \in DOMAIN m \ {k} |-> m[c]]

set_block_stores_air(r, pos, block) ==
    [r EXCEPT !.blocks = MapInsert(r.blocks, pos, block)]

(* Region::set_block *)
set_block(r, pos, block) ==
    IF block # Air
    THEN [r EXCEPT !.blocks = MapInsert(r.blocks, pos, block)]
    ELSE [r EXCEPT !.blocks = MapRemove(r.blocks, pos)]

(* The volumes a fold of expand_to_fit over `keys` can end in.  The fold    *)
(* visits the hash map's keys in an order the program does not control; a  *)
(* key whose cell the volume already holds leaves it unchanged, so only     *)
(* the order of the keys that still move a corner matters.                  *)
RECURSIVE FoldExpandToFit(_, _)
FoldExpandToFit(vol, keys) ==
    LET moving == { k \in keys : expand_to_fit(vol, k) # vol }
    IN  IF moving = {} THEN {vol}
        ELSE UNION { FoldExpandToFit(expand_to_fit(vol, k), moving \ {k}) :
                         k \in moving }

(* Region::volume(): its possible results *)
RegionVolume(r) ==
    FoldExpandToFit(r.volume, { VecAdd(k, origin(r.volume)) : k \in DOMAIN r.blocks })

Range(f) == { f[x] : x \in DOMAIN f }

OrdersOf(S) ==
    { f \in [1 .. Cardinality(S) -> S] : \A i, j \in DOMAIN f : f[i] = f[j] => i = j }

(* the orders in which a properties HashMap can yield its entries: each    *)
(* map has a hasher of its own, so two equal maps need not agree           *)
IterationOrders(properties) == OrdersOf(properties)

(* what Hash for BlockState feeds the hasher: the name, then the entries   *)
(* of properties in the order the value's map yields them                  *)
HashInput(state, order) == <<state.block, order>>

(* HashSet<&BlockState> collected from blocks.values(): two values are one *)
(* element when they are equal and hash alike.  The value stored at each   *)
(* coordinate brings the iteration order of its own map.                   *)
HashSetsOfValues(blocks) ==
    { { <<blocks[c], HashInput(blocks[c], h[c])>> : c \in DOMAIN blocks } :
          h \in { g \in [DOMAIN blocks ->
                            UNION { IterationOrders(blocks[c].properties) :
                                        c \in DOMAIN blocks }] :
                      \A c \in DOMAIN blocks :
                          g[c] \in IterationOrders(blocks[c].properties) } }

(* Region::generate_palette_nbt: air, then the elements of the hash set in *)
(* the order it yields them, which the program does not control.           *)
generate_palette_nbt(blocks) ==
    UNION { { <<Air>> \o [k \in DOMAIN p |-> p[k][1]] : p \in OrdersOf(elements) } :
                elements \in HashSetsOfValues(blocks) }

(* the position counted from 1 *)
PositionIn_one_based(palette, value) ==
    CHOOSE k \in DOMAIN palette :
        palette[k] = value /\ \A j \in 1 .. (k - 1) : palette[j] # value

(* Iterator::position(|v| v == value).unwrap(), 0-based *)
PositionIn(palette, value) ==
    (CHOOSE k \in DOMAIN palette :
         palette[k] = value /\ \A j \in 1 .. (k - 1) : palette[j] # value) - 1

unpack_keeps_air(arr, palette, bits_per_position, region_size) ==
    LET blocks == Min((Len(arr) * WordBits) \div bits_per_position,
                      VecVolume(region_size))
        fields == [blk \in 0 .. (blocks - 1) |->
                       get_index_out_of_packed_array(arr, blk, bits_per_position)]
        InRange(blk) ==
            /\ index_to_coords(region_size, blk).some
            /\ IsOk(fields[blk])
            /\ FitsNat(fields[blk].value)
            /\ NatOfWord(fields[blk].value) < Len(palette)
    IN  IF \E blk \in DOMAIN fields : ~InRange(blk) THEN Panic
        ELSE LET coords == [blk \in DOMAIN fields |->
                                index_to_coords(region_size, blk).value]
                 states == [blk \in DOMAIN fields |->
                                palette[NatOfWord(fields[blk].value) + 1]]
             IN  Ok([c \in Range(coords) |->
                        states[CHOOSE blk \in DOMAIN fields :
                                   /\ coords[blk] = c
                                   /\ \A o \in DOMAIN fields :
                                          coords[o] = c => o <= blk]])

(* Region::unpack_packed_array.  palette[palette_index] panics when the    *)
(* field read is not below the palette's length; HashMap::insert keeps the *)
(* last state inserted at a coordinate.                                    *)
unpack_packed_array(arr, palette, bits_per_position, region_size) ==
    LET blocks == Min((Len(arr) * WordBits) \div bits_per_position,
                      VecVolume(region_size))
        fields == [blk \in 0 .. (blocks - 1) |->
                       get_index_out_of_packed_array(arr, blk, bits_per_position)]
        InRange(blk) ==
            /\ index_to_coords(region_size, blk).some
            /\ IsOk(fields[blk])
            /\ FitsNat(fields[blk].value)
            /\ NatOfWord(fields[blk].value) < Len(palette)
    IN  IF \E blk \in DOMAIN fields : ~InRange(blk) THEN Panic
        ELSE LET coords == [blk \in DOMAIN fields |->
                                index_to_coords(region_size, blk).value]
                 states == [blk \in DOMAIN fields |->
                                palette[NatOfWord(fields[blk].value) + 1]]
                 stored == { blk \in DOMAIN fields : states[blk] # Air }
             IN  Ok([c \in { coords[blk] : blk \in stored } |->
                        states[CHOOSE blk \in stored :
                                   /\ coords[blk] = c
                                   /\ \A o \in stored : coords[o] = c => o <= blk]])

(* The loop of generate_block_states_nbt over the stored blocks still to   *)
(* be written.  Each block writes the field of its own linear index, so    *)
(* the words written do not depend on the order the hash map yields them;  *)
(* a block outside the volume reaches unreachable!() in any order.         *)
RECURSIVE WriteBlocks(_, _, _, _, _, _)
WriteBlocks(block_states, blocks, todo, palette, vol, bits) ==
    IF todo = {} THEN Ok(block_states)
    ELSE LET block_pos == CHOOSE k \in todo : TRUE
             index == coords_to_index(size(vol), VecSub(block_pos, origin(vol)))
         IN  IF ~index.some THEN Panic
             ELSE LET written ==
                          set_index_in_packed_array(
                              block_states,
                              WordOfNat(PositionIn(palette, blocks[block_pos])),
                              index.value, bits)
                  IN  IF ~IsOk(written) THEN Panic
                      ELSE WriteBlocks(written.value, blocks, todo \ {block_pos},
                                       palette, vol, bits)

(* Region::generate_block_states_nbt: its possible results *)
generate_block_states_nbt(r, region_volume, palette) ==
    LET bits == calculate_bits(Len(palette))
    IN  { IF ~IsOk(longs) \/ longs.value < 0 THEN Panic
          ELSE WriteBlocks([k \in 1 .. longs.value |-> {}], r.blocks,
                           DOMAIN r.blocks, palette, region_volume, bits) :
              longs \in calculate_amt_of_longs(VolumeOf(region_volume), bits) }

VecTag(v) == [kind |-> "Compound", vec |-> v]

ListTag(items) == [kind |-> "List", items |-> items]

(* data.get::<_, &NbtList>(name).ok().map(|v| v.clone()): the list when    *)
(* the compound holds a list under the name, None when it holds nothing or *)
(* a tag of another type                                                   *)
GetList(field) ==
    IF field.some /\ field.value.kind = "List" THEN Some(field.value.items) ELSE None

(* write_misc_data writing an empty list for a payload the Region lacks *)
write_misc_data_placeholder(r) ==
    [entities |-> Some(ListTag(IF r.entities.some THEN r.entities.value ELSE <<>>)),
     pending_block_ticks |->
         Some(ListTag(IF r.pending_block_ticks.some
                      THEN r.pending_block_ticks.value ELSE <<>>)),
     pending_fluid_ticks |->
         Some(ListTag(IF r.pending_fluid_ticks.some
                      THEN r.pending_fluid_ticks.value ELSE <<>>)),
     tile_entities |->
         Some(ListTag(IF r.tile_entities.some THEN r.tile_entities.value ELSE <<>>))]

(* Region::write_misc_data: the tags it inserts, None for a name it leaves *)
(* out of the compound                                                     *)
write_misc_data(r) ==
    [entities |-> IF r.entities.some THEN Some(ListTag(r.entities.value)) ELSE None,
     pending_block_ticks |->
         IF r.pending_block_ticks.some
         THEN Some(ListTag(r.pending_block_ticks.value)) ELSE None,
     pending_fluid_ticks |->
         IF r.pending_fluid_ticks.some
         THEN Some(ListTag(r.pending_fluid_ticks.value)) ELSE None,
     tile_entities |->
         IF r.tile_entities.some THEN Some(ListTag(r.tile_entities.value)) ELSE None]

(* Region::to_nbt: its possible results, (compound, volume) or a panic. *)
to_nbt(r) ==
    UNION { UNION { { IF ~IsOk(block_states) THEN Panic
                      ELSE Ok([compound |->
                                   [palette |->
                                        [kind |-> "List",
                                         items |-> [k \in DOMAIN palette |->
                                                        BlockStateToNbt(palette[k])]],
                                    block_states |->
                                        [kind |-> "LongArray",
                                         words |-> block_states.value],
                                    position |-> VecTag(origin(vol)),
                                    size |-> VecTag(size(vol)),
                                    entities |-> write_misc_data(r).entities,
                                    pending_block_ticks |->
                                        write_misc_data(r).pending_block_ticks,
                                    pending_fluid_ticks |->
                                        write_misc_data(r).pending_fluid_ticks,
                                    tile_entities |->
                                        write_misc_data(r).tile_entities],
                               volume |-> vol]) :
                          block_states \in
                              generate_block_states_nbt(r, make_size_positive(vol),
                                                        palette) } :
                    vol \in RegionVolume(r) } :
            palette \in generate_palette_nbt(r.blocks) }

(* Region::new_from_nbt in a given build *)
new_from_nbt_in(data, build) ==
    IF data.palette.kind = "Missing" THEN Err("Region.NonexistentTag(BlockStatePalette)")
    ELSE IF data.palette.kind # "List" THEN Err("Region.WrongTag(BlockStatePalette)")
    ELSE LET parsed_palette == parse_palette(data.palette.items)
         IN  IF ~IsOk(parsed_palette)
             THEN Err("Region.BlockStateParseError")
             ELSE IF data.block_states.kind = "Missing"
             THEN Err("Region.NonexistentTag(BlockStates)")
             ELSE IF data.block_states.kind # "LongArray"
             THEN Err("Region.WrongTag(BlockStates)")
             ELSE IF data.size.kind # "Compound"
             THEN Err("Region.NonexistentTag(Size)")
             ELSE IF data.position.kind # "Compound"
             THEN Err("Region.NonexistentTag(Position)")
             ELSE LET bits == calculate_bits_in(Len(parsed_palette.value), build)
                      blocks ==
                          unpack_packed_array(
                              data.block_states.words, parsed_palette.value,
                              bits.value, data.size.vec)
                  IN  IF ~IsOk(bits) THEN Panic
                      ELSE IF ~IsOk(blocks) THEN Panic
                      ELSE Ok([volume |-> VolumeNew(data.position.vec, data.size.vec),
                               blocks |-> blocks.value,
                               entities |-> GetList(data.entities),
                               pending_block_ticks |-> GetList(data.pending_block_ticks),
                               pending_fluid_ticks |-> GetList(data.pending_fluid_ticks),
                               tile_entities |-> GetList(data.tile_entities)])

(* Region::new_from_nbt: its possible results, one per build *)
new_from_nbt(data) == { new_from_nbt_in(data, build) : build \in Builds }

----------------------------------------------------------------------------
(* Calls of the two sizing functions on bounded inputs.                    *)

Start == [op |-> "start"]

(* no outcome yet *)
NotYet == [status |-> "none"]

MaxPaletteLength == 1360

MaxSmallVolume == 130

BitWidths == 1 .. 32

(* field counts: every small one, the test's 683, and counts near the i32 limits *)
VolumeSamples ==
    (0 .. MaxSmallVolume)
        \cup { 683, Half * 1024 - 1, Half * 1024, Half * 1024 + 1, Half * 2048, I32Max }

CalculateBits(n) ==
    /\ call.op = "start"
    /\ call' = [op |-> "calculate_bits", length |-> n, result |-> calculate_bits(n)]
    /\ UNCHANGED <<array, region, nbt, decoded, phase, edits>>

CalculateAmtOfLongs(v, b) ==
    /\ call.op = "start"
    /\ \E out \in calculate_amt_of_longs(v, b) :
           call' = [op |-> "calculate_amt_of_longs", region_volume |-> v,
                    bits |-> b, result |-> out]
    /\ UNCHANGED <<array, region, nbt, decoded, phase, edits>>

InitCalc ==
    /\ call = Start
    /\ array = <<>>
    /\ region = RegionNew
    /\ nbt = NotYet
    /\ decoded = NotYet
    /\ phase = "calc"
    /\ edits = 0

NextCalc ==
    \/ \E n \in 1 .. MaxPaletteLength : CalculateBits(n)
    \/ \E v \in VolumeSamples, b \in BitWidths : CalculateAmtOfLongs(v, b)

SpecCalc == InitCalc /\ [][NextCalc]_vars

----------------------------------------------------------------------------
(* Calls of the packed-array getter and setter on bounded inputs.          *)

MaxWords == 2

(* the two words of test_get_index_out_of_packed_array *)
TestWord0 == HexWord(<<0, 1, 2, 3, 4, 5, 6, 7, 8, 9, 10, 11, 12, 13, 14, 15>>)

TestWord1 == HexWord(<<1, 0, 3, 2, 5, 4, 7, 6, 9, 8, 11, 10, 13, 12, 15, 14>>)

TestArray(len) == [k \in 1 .. len |-> IF k % 2 = 1 THEN TestWord0 ELSE TestWord1]

ArraySamples ==
    UNION { { [k \in 1 .. len |-> {}],
              [k \in 1 .. len |-> BitPositions],
              [k \in 1 .. len |-> {SignBit}],
              TestArray(len) } : len \in 1 .. MaxWords }

FieldWidths == MinBits .. 32

(* the field indices whose word index is in range *)
FieldIndices(arr, b) == 0 .. ((WordBits * Len(arr) - 1) \div b)

(* values in [0, 2^b) and, last, one that is not: -1 *)
ValueSamples(b) == { {}, {0}, {b - 1}, LowMask(b), BitPositions }

GetIndex(i, b) ==
    /\ call.op = "start"
    /\ call' = [op |-> "get", position |-> i, bits |-> b,
                result |-> get_index_out_of_packed_array(array, i, b)]
    /\ UNCHANGED <<array, region, nbt, decoded, phase, edits>>

SetIndex(v, i, b) ==
    /\ call.op = "start"
    /\ LET out == set_index_in_packed_array(array, v, i, b)
       IN  /\ IsOk(out)
           /\ array' = out.value
           /\ call' = [op |-> "set", value |-> v, position |-> i, bits |-> b,
                       before |-> array]
    /\ UNCHANGED <<region, nbt, decoded, phase, edits>>

GetAfterSet ==
    /\ call.op = "set"
    /\ call' = [op |-> "set_get", value |-> call.value, position |-> call.position,
                bits |-> call.bits,
                result |-> get_index_out_of_packed_array(array, call.position,
                                                         call.bits)]
    /\ UNCHANGED <<array, region, nbt, decoded, phase, edits>>

InitPacked ==
    /\ array \in ArraySamples
    /\ call = Start
    /\ region = RegionNew
    /\ nbt = NotYet
    /\ decoded = NotYet
    /\ phase = "packed"
    /\ edits = 0

NextPacked ==
    \/ \E b \in FieldWidths : \E i \in FieldIndices(array, b) : GetIndex(i, b)
    \/ \E b \in FieldWidths : \E i \in FieldIndices(array, b) :
           \E v \in ValueSamples(b) : SetIndex(v, i, b)
    \/ GetAfterSet

SpecPacked == InitPacked /\ [][NextPacked]_vars

----------------------------------------------------------------------------
(* A Region built by Region::new() and set_block, encoded by to_nbt and    *)
(* decoded again by new_from_nbt.                                          *)

MaxEdits == 4

Stone == <<"s", "t", "o", "n", "e">>

StoneBricks == <<"s", "t", "o", "n", "e", "_", "b", "r", "i", "c", "k", "s">>

Basalt == <<"b", "a", "s", "a", "l", "t">>

NameSamples == { AirName, Stone, StoneBricks, Basalt }

(* the coordinates of test_generate_block_data, the cell whose field ends  *)
(* the first word of their volume, and a negative coordinate               *)
CoordSamples ==
    { <<0, 0, 0>>, <<2, 1, 0>>, <<2, 2, 0>>, <<5, 2, 1>>, <<1, 2, 1>>, <<-1, 0, 0>> }

SetBlockCall(pos, block, limit, record) ==
    /\ phase \in {"new", "parsed"}
    /\ nbt = NotYet
    /\ edits < limit
    /\ region' = set_block(region, pos, block)
    /\ edits' = edits + 1
    /\ call' = record
    /\ UNCHANGED <<array, nbt, decoded, phase>>

SetBlock(pos, block) == SetBlockCall(pos, block, MaxEdits, [op |-> "set_block"])

ToNbt ==
    /\ phase \in {"new", "parsed"}
    /\ nbt = NotYet
    /\ \E out \in to_nbt(region) : nbt' = out
    /\ call' = [op |-> "to_nbt"]
    /\ UNCHANGED <<array, region, decoded, phase, edits>>

(* Region::new_from_nbt on the compound to_nbt returned *)
NewFromNbt ==
    /\ IsOk(nbt)
    /\ decoded = NotYet
    /\ \E out \in new_from_nbt(nbt.value.compound) : decoded' = out
    /\ call' = [op |-> "new_from_nbt"]
    /\ UNCHANGED <<array, region, nbt, phase, edits>>

Init ==
    /\ region = RegionNew
    /\ nbt = NotYet
    /\ decoded = NotYet
    /\ phase = "new"
    /\ edits = 0
    /\ array = <<>>
    /\ call = Start

Next ==
    \/ \E pos \in CoordSamples, name \in NameSamples :
           SetBlock(pos, BlockStateNew(name, None))
    \/ ToNbt
    \/ NewFromNbt

Spec == Init /\ [][Next]_vars

----------------------------------------------------------------------------
(* A Region decoded from a region compound of a document, or created by    *)
(* Region::new(), then edited by set_block and encoded.                    *)

MaxParsedEdits == 2

RawState(name) ==
    [kind |-> "Compound",
     name |-> StringTag(name),
     properties |-> [kind |-> "Missing", entries |-> {}]]

DocPalettes ==
    { <<RawState(AirName), RawState(Stone)>>,
      <<RawState(<<"A", "i", "r">>), RawState(Stone), RawState(Basalt)>> }

(* 0x1111111111111111, the word of test_unpack_packed_array: 2-bit fields 1, 0, 1, 0, ... *)
Word1111 == HexWord([k \in 1 .. 16 |-> 1])

(* 0x2121212121212121: 2-bit fields 1, 0, 2, 0, ... *)
Word2121 == HexWord([k \in 1 .. 16 |-> IF k % 2 = 1 THEN 2 ELSE 1])

DocWords == { <<Word1111>>, <<Word2121>>, TestArray(2) }

DocSizes == { <<2, 4, 4>>, <<1, 1, 1>>, <<2, -3, 3>>, <<0, 0, 0>> }

DocPositions == { ZeroVec, <<1, 0, 0>> }

DocPayloads ==
    { [entities |-> None, pending_block_ticks |-> None,
       pending_fluid_ticks |-> None, tile_entities |-> None],
      [entities |-> Some(ListTag(<<"entity">>)), pending_block_ticks |-> None,
       pending_fluid_ticks |-> Some(ListTag(<<>>)),
       tile_entities |-> Some(ListTag(<<"chest">>))],
      [entities |-> Some([kind |-> "Compound", items |-> <<>>]),
       pending_block_ticks |-> Some(ListTag(<<"tick">>)),
       pending_fluid_ticks |-> None, tile_entities |-> None] }

SampleDocs ==
    { [palette |-> [kind |-> "List", items |-> p],
       block_states |-> [kind |-> "LongArray", words |-> w],
       position |-> VecTag(pos),
       size |-> VecTag(sz),
       entities |-> x.entities,
       pending_block_ticks |-> x.pending_block_ticks,
       pending_fluid_ticks |-> x.pending_fluid_ticks,
       tile_entities |-> x.tile_entities] :
          p \in DocPalettes, w \in DocWords, pos \in DocPositions,
          sz \in DocSizes, x \in DocPayloads }

EditNames == { AirName, Stone, Basalt }

EditCoords == { <<0, 0, 0>>, <<2, 1, 0>>, <<-1, 0, 0>> }

(* Region::new_from_nbt on a region compound of a document *)
ParseDoc(doc) ==
    /\ phase = "new"
    /\ edits = 0
    /\ nbt = NotYet
    /\ decoded = NotYet
    /\ \E r \in new_from_nbt(doc) :
           IF IsOk(r)
           THEN region' = r.value /\ phase' = "parsed" /\ decoded' = decoded
           ELSE region' = region /\ phase' = "failed" /\ decoded' = r
    /\ call' = [op |-> "new_from_nbt_of_document", doc |-> doc]
    /\ UNCHANGED <<array, nbt, edits>>

(* Region::set_block, the call and the Region before it kept in `call` *)
TracedSetBlock(pos, block) ==
    SetBlockCall(pos, block, MaxParsedEdits,
                 [op |-> "set_block", pos |-> pos, block |-> block,
                  before |-> region])

NextParse ==
    \/ \E doc \in SampleDocs : ParseDoc(doc)
    \/ \E pos \in EditCoords, name \in EditNames :
           TracedSetBlock(pos, BlockStateNew(name, None))
    \/ ToNbt
    \/ NewFromNbt

SpecParse == Init /\ [][NextParse]_vars

----------------------------------------------------------------------------
(* SpecCoords: Region::index_to_coords and Region::coords_to_index applied *)
(* to a size the caller fixed, and each applied to the other's result.     *)

MaxSide == 3

(* sizes with every component in 0 .. MaxSide, and the sizes of the tests *)
SizeSamples ==
    { <<x, y, z>> : x \in 0 .. MaxSide, y \in 0 .. MaxSide, z \in 0 .. MaxSide }
        \cup { <<4, 6, 5>>, <<2, 3, 3>>, <<1, 2, 3>>, <<6, 3, 1>>, <<5, 7, 3>> }

(* indices below, at and above the volume of the size *)
IndexSamples(sz) == 0 .. (VecVolume(sz) + 1)

(* positions inside the size and one step outside it on every side *)
PosSamples(sz) ==
    { <<x, y, z>> : x \in (-1) .. sz[1], y \in (-1) .. sz[2], z \in (-1) .. sz[3] }

IndexToCoords(i) ==
    /\ call.op = "coords_start"
    /\ call' = [op |-> "index_to_coords", size |-> call.size, index |-> i,
                result |-> index_to_coords(call.size, i)]
    /\ UNCHANGED <<array, region, nbt, decoded, phase, edits>>

(* coords_to_index on the position index_to_coords returned *)
CoordsToIndexOfResult ==
    /\ call.op = "index_to_coords"
    /\ call.result.some
    /\ call' = [op |-> "index_to_coords_to_index", size |-> call.size,
                index |-> call.index, pos |-> call.result.value,
                result |-> coords_to_index(call.size, call.result.value)]
    /\ UNCHANGED <<array, region, nbt, decoded, phase, edits>>

CoordsToIndex(p) ==
    /\ call.op = "coords_start"
    /\ call' = [op |-> "coords_to_index", size |-> call.size, pos |-> p,
                result |-> coords_to_index(call.size, p)]
    /\ UNCHANGED <<array, region, nbt, decoded, phase, edits>>

(* index_to_coords on the index coords_to_index returned *)
IndexToCoordsOfResult ==
    /\ call.op = "coords_to_index"
    /\ call.result.some
    /\ call' = [op |-> "coords_to_index_to_coords", size |-> call.size,
                pos |-> call.pos, index |-> call.result.value,
                result |-> index_to_coords(call.size, call.result.value)]
    /\ UNCHANGED <<array, region, nbt, decoded, phase, edits>>

InitCoords ==
    /\ call \in { [op |-> "coords_start", size |-> sz] : sz \in SizeSamples }
    /\ array = <<>>
    /\ region = RegionNew
    /\ nbt = NotYet
    /\ decoded = NotYet
    /\ phase = "coords"
    /\ edits = 0

NextCoords ==
    \/ \E i \in IndexSamples(call.size) : IndexToCoords(i)
    \/ CoordsToIndexOfResult
    \/ \E p \in PosSamples(call.size) : CoordsToIndex(p)
    \/ IndexToCoordsOfResult

SpecCoords == InitCoords /\ [][NextCoords]_vars

----------------------------------------------------------------------------
(* SpecVolume: the operations of Volume applied to a volume the caller     *)
(* built, and the iterators made from it.                                  *)

MaxExtent == 2

MaxPoint == 2

MaxExtraNext == 2

MaxEarlierIterators == 1

OriginSamples == { ZeroVec, <<1, 1, 1>>, <<0, -1, 0>> }

(* volumes of positive, negative and zero size on each axis, and those of  *)
(* the documentation and the tests                                         *)
VolumeInputs ==
    { VolumeNew(o, <<x, y, z>>) :
          o \in OriginSamples,
          x \in (-MaxExtent) .. MaxExtent,
          y \in (-MaxExtent) .. MaxExtent,
          z \in (-MaxExtent) .. MaxExtent }
        \cup { VolumeNew(<<2, 3, 4>>, <<-2, 5, -7>>),
               VolumeNew(<<0, -1, 0>>, <<1, 2, 1>>),
               VolumeNew(<<0, 0, 0>>, <<1, 1, 2>>),
               VolumeNew(<<1, 1, 1>>, <<2, 2, 2>>),
               VolumeNew(<<1, 1, 1>>, <<2, -2, 2>>) }

PointSamples ==
    { <<x, y, z>> : x \in (-MaxPoint) .. MaxPoint,
                    y \in (-MaxPoint) .. MaxPoint,
                    z \in (-MaxPoint) .. MaxPoint }

OtherVolumes ==
    { VolumeNew(o, <<x, y, z>>) :
          o \in { ZeroVec, <<0, -1, 0>> },
          x \in {-2, 0, 1}, y \in {-1, 0, 2}, z \in {-1, 0, 1} }

ExpandToFit(p) ==
    /\ call.op = "volume_start"
    /\ call' = [op |-> "expand_to_fit", volume |-> call.volume, vector |-> p,
                result |-> expand_to_fit(call.volume, p)]
    /\ UNCHANGED <<array, region, nbt, decoded, phase, edits>>

ExpandToFitVolume(other) ==
    /\ call.op = "volume_start"
    /\ call' = [op |-> "expand_to_fit_volume", volume |-> call.volume,
                other |-> other, result |-> expand_to_fit_volume(call.volume, other)]
    /\ UNCHANGED <<array, region, nbt, decoded, phase, edits>>

MakeSizePositive ==
    /\ call.op = "volume_start"
    /\ call' = [op |-> "make_size_positive", volume |-> call.volume,
                result |-> make_size_positive(call.volume)]
    /\ UNCHANGED <<array, region, nbt, decoded, phase, edits>>

(* Volume::iter, on a volume that may have made iterators before *)
Iter ==
    /\ call.op \in {"volume_start", "iter"}
    /\ call.op = "iter" => call.earlier < MaxEarlierIterators
    /\ call' = [op |-> "iter", volume |-> call.volume,
                iterator |-> volume_iter(call.volume), yielded |-> <<>>,
                earlier |-> IF call.op = "iter" THEN call.earlier + 1 ELSE 0]
    /\ UNCHANGED <<array, region, nbt, decoded, phase, edits>>

(* VolumeIterator::next on the newest iterator, its return value recorded *)
IterNext ==
    /\ call.op = "iter"
    /\ Len(call.yielded) < VolumeOf(call.volume) + MaxExtraNext
    /\ LET step == volume_iterator_next(call.iterator)
       IN  call' = [call EXCEPT !.iterator = step.iterator,
                                !.yielded = Append(@, step.ret)]
    /\ UNCHANGED <<array, region, nbt, decoded, phase, edits>>

InitVolume ==
    /\ call \in { [op |-> "volume_start", volume |-> v] : v \in VolumeInputs }
    /\ array = <<>>
    /\ region = RegionNew
    /\ nbt = NotYet
    /\ decoded = NotYet
    /\ phase = "volume"
    /\ edits = 0

NextVolume ==
    \/ \E p \in PointSamples : ExpandToFit(p)
    \/ \E other \in OtherVolumes : ExpandToFitVolume(other)
    \/ MakeSizePositive
    \/ Iter
    \/ IterNext

SpecVolume == InitVolume /\ [][NextVolume]_vars

----------------------------------------------------------------------------
(* SpecPalette: a Region built by set_block from states with and without   *)
(* properties, and the palette generate_palette_nbt makes of its blocks.   *)

(* minecraft:oak_stairs[facing=north,half=top] *)
OakStairs ==
    BlockStateNew(<<"o", "a", "k", "_", "s", "t", "a", "i", "r", "s">>,
                  Some({ <<"facing", "north">>, <<"half", "top">> }))

(* minecraft:basalt[axis=y], the state of the documentation of BlockState::new *)
BasaltY == BlockStateNew(Basalt, Some({ <<"axis", "y">> }))

PaletteStates ==
    { Air, BlockStateNew(Stone, None), BlockStateNew(Basalt, None), BasaltY, OakStairs }

PaletteCoords == { <<0, 0, 0>>, <<1, 0, 0>>, <<2, 1, 0>> }

GeneratePalette ==
    /\ phase = "new"
    /\ call.op # "generate_palette_nbt"
    /\ \E palette \in generate_palette_nbt(region.blocks) :
           call' = [op |-> "generate_palette_nbt", blocks |-> region.blocks,
                    result |-> palette]
    /\ UNCHANGED <<array, region, nbt, decoded, phase, edits>>

NextPalette ==
    \/ \E pos \in PaletteCoords, block \in PaletteStates : SetBlock(pos, block)
    \/ GeneratePalette

SpecPalette == Init /\ [][NextPalette]_vars

----------------------------------------------------------------------------
(* Schematic::from_buffer (src/src/schematic.rs).  A document is the       *)
(* record of what the reader finds: whether the bytes are NBT at all, and  *)
(* the root tags Version, Metadata, Regions and MinecraftDataVersion.      *)

SupportedVersion == 5

(* a LitematicParseError: its variant, the tag or inner error it names and *)
(* the version number it carries                                           *)
LitematicErr(variant, tag, version) ==
    [status |-> "err", error |-> variant, tag |-> tag, version |-> version]

(* the first of the tags Metadata must hold that is absent or of another   *)
(* type, in the order the fields of Schematic are built                    *)
MetadataFields ==
    << <<"Author", "String">>, <<"Description", "String">>, <<"Name", "String">>,
       <<"TimeCreated", "Long">>, <<"TimeModified", "Long">> >>

MetadataTag(metadata, k) ==
    CASE k = 1 -> metadata.author
      [] k = 2 -> metadata.description
      [] k = 3 -> metadata.name
      [] k = 4 -> metadata.time_created
      [] k = 5 -> metadata.time_modified

BadMetadataFields(metadata) ==
    { k \in DOMAIN MetadataFields : MetadataTag(metadata, k).kind # MetadataFields[k][2] }

(* the loop of parse_regions over the entries in the order the map yields  *)
(* them, in a given build                                                  *)
RECURSIVE ParseRegionsFrom(_, _, _, _, _)
ParseRegionsFrom(entries, order, k, regions_parsed, build) ==
    IF k > Len(order) THEN Ok(regions_parsed)
    ELSE LET name == order[k]
             tag == entries[name]
         IN  IF tag.kind # "Compound" THEN LitematicErr("WrongTag", name, 0)
             ELSE LET parsed == new_from_nbt_in(tag.compound, build)
                  IN  IF parsed.status = "panic" THEN Panic
                      ELSE IF parsed.status = "err"
                      THEN LitematicErr("RegionParseError", parsed.error, 0)
                      ELSE ParseRegionsFrom(entries, order, k + 1,
                                            MapInsert(regions_parsed, name, parsed.value),
                                            build)

(* Schematic::parse_regions: its possible results, one per build and per   *)
(* order in which the map of regions can yield its entries                 *)
parse_regions(data) ==
    IF data.regions.kind = "Missing"
    THEN { LitematicErr("NonexistentTag", "Regions", 0) }
    ELSE IF data.regions.kind # "Compound"
    THEN { LitematicErr("WrongTag", "Regions", 0) }
    ELSE { ParseRegionsFrom(data.regions.entries, order[1], 1, EmptyMap, order[2]) :
               order \in OrdersOf(DOMAIN data.regions.entries) \X Builds }

(* the part of from_buffer after the version check: Metadata, the fields   *)
(* of Schematic in the order they are written, parse_regions among them    *)
SchematicFrom(data) ==
    IF data.metadata.kind # "Compound"
    THEN { LitematicErr("NonexistentTag", "Metadata", 0) }
    ELSE IF BadMetadataFields(data.metadata) # {}
    THEN { LitematicErr("NonexistentTag",
                        MetadataFields[CHOOSE k \in BadMetadataFields(data.metadata) :
                                           \A j \in BadMetadataFields(data.metadata) :
                                               k <= j][1],
                        0) }
    ELSE { IF ~IsOk(regions) THEN regions
           ELSE IF data.data_version.kind # "Int"
           THEN LitematicErr("NonexistentTag", "MinecraftDataVersion", 0)
           ELSE Ok([author |-> data.metadata.author.text,
                    description |-> data.metadata.description.text,
                    name |-> data.metadata.name.text,
                    time_created |-> data.metadata.time_created.value,
                    time_modified |-> data.metadata.time_modified.value,
                    regions |-> regions.value,
                    data_version |-> data.data_version.value]) :
               regions \in parse_regions(data) }

(* from_buffer looking at Metadata and Regions before the version *)
from_buffer_version_last(data) ==
    IF ~data.readable THEN { LitematicErr("NBTParseError", "", 0) }
    ELSE IF data.version.kind # "Int"
    THEN { LitematicErr("NonexistentTag", "Version", 0) }
    ELSE { IF IsOk(built) /\ data.version.value # SupportedVersion
           THEN LitematicErr("UnsupportedVersionNumber", "", data.version.value)
           ELSE built : built \in SchematicFrom(data) }

(* Schematic::from_buffer: its possible results *)
from_buffer(data) ==
    IF ~data.readable THEN { LitematicErr("NBTParseError", "", 0) }
    ELSE IF data.version.kind # "Int"
    THEN { LitematicErr("NonexistentTag", "Version", 0) }
    ELSE IF data.version.value # SupportedVersion
    THEN { LitematicErr("UnsupportedVersionNumber", "", data.version.value) }
    ELSE SchematicFrom(data)

----------------------------------------------------------------------------
(* SpecSchematic: Schematic::from_buffer applied to a document.            *)

IntTag(n) == [kind |-> "Int", value |-> n]

LongTag(n) == [kind |-> "Long", value |-> n]

MissingTag == [kind |-> "Missing", value |-> 0]

MissingText == [kind |-> "Missing", text |-> <<>>]

VersionTags == { IntTag(4), IntTag(5), IntTag(6), IntTag(-1), MissingTag }

GoodMetadata ==
    [kind |-> "Compound", author |-> StringTag(<<"a">>),
     description |-> StringTag(<<>>), name |-> StringTag(<<"n">>),
     time_created |-> LongTag(1), time_modified |-> LongTag(2)]

MetadataTags ==
    { GoodMetadata,
      [GoodMetadata EXCEPT !.name = MissingText],
      [GoodMetadata EXCEPT !.time_created = IntTag(1)],
      [GoodMetadata EXCEPT !.kind = "Missing"] }

(* a region compound with no payload lists *)
RegionCompound(palette, block_states, sz) ==
    [kind |-> "Compound",
     compound |-> [palette |-> [kind |-> "List", items |-> palette],
                   block_states |-> block_states,
                   position |-> VecTag(ZeroVec),
                   size |-> VecTag(sz),
                   entities |-> None, pending_block_ticks |-> None,
                   pending_fluid_ticks |-> None, tile_entities |-> None]]

(* the entries Regions may hold: two regions that decode, one whose        *)
(* BlockStates is not a long array, one whose first field names no palette *)
(* entry, and an entry that is not a compound                              *)
RegionEntries ==
    [first |-> RegionCompound(<<RawState(AirName), RawState(Stone)>>,
                              [kind |-> "LongArray", words |-> <<Word1111>>],
                              <<1, 1, 1>>),
     second |-> RegionCompound(<<RawState(AirName), RawState(Stone), RawState(Basalt)>>,
                               [kind |-> "LongArray", words |-> <<Word2121>>],
                               <<2, 1, 1>>),
     broken |-> RegionCompound(<<RawState(AirName), RawState(Stone)>>,
                               [kind |-> "String", words |-> <<>>],
                               <<1, 1, 1>>),
     overrun |-> RegionCompound(<<RawState(AirName), RawState(Stone), RawState(Basalt)>>,
                                [kind |-> "LongArray", words |-> <<TestWord0>>],
                                <<1, 1, 1>>),
     loose |-> [kind |-> "String", compound |-> <<>>]]

RegionsTags ==
    { [kind |-> "Compound", entries |-> [n \in names |-> RegionEntries[n]]] :
          names \in SUBSET DOMAIN RegionEntries }
        \cup { [kind |-> "Missing", entries |-> <<>>], [kind |-> "List", entries |-> <<>>] }

SchematicDocs ==
    { [readable |-> b, version |-> v, metadata |-> m, regions |-> r, data_version |-> d] :
          b \in BOOLEAN, v \in VersionTags, m \in MetadataTags, r \in RegionsTags,
          d \in { IntTag(2730), MissingTag } }

FromBuffer ==
    /\ call.op = "schematic_start"
    /\ \E out \in from_buffer(call.doc) :
           call' = [op |-> "from_buffer", doc |-> call.doc, result |-> out]
    /\ UNCHANGED <<array, region, nbt, decoded, phase, edits>>

InitSchematic ==
    /\ call \in { [op |-> "schematic_start", doc |-> d] : d \in SchematicDocs }
    /\ array = <<>>
    /\ region = RegionNew
    /\ nbt = NotYet
    /\ decoded = NotYet
    /\ phase = "schematic"
    /\ edits = 0

NextSchematic == FromBuffer

SpecSchematic == InitSchematic /\ [][NextSchematic]_vars

----------------------------------------------------------------------------
(* SpecBlockState: a BlockState made from a name and properties the caller *)
(* chose, renamed, made again from its own name, read from a compound, and *)
(* hashed.                                                                 *)

MaxNameLength == 3

NameChars == { "a", "I", ":" }

(* every name of up to MaxNameLength characters, and the names of the tests *)
NameInputs ==
    UNION { [1 .. n -> NameChars] : n \in 0 .. MaxNameLength }
        \cup { AirName, <<"A", "i", "r">>,
               <<"C", "o", "O", "l", "M", "o", "D", ":", "a", "I", "r">> }

PropertyInputs ==
    { None, Some({ <<"axis", "y">> }),
      Some({ <<"facing", "north">>, <<"half", "top">> }) }

(* the compound Into<NbtTag> would not lower: the name as given *)
StateCompound(name, properties) ==
    [kind |-> "Compound",
     name |-> StringTag(name),
     properties |->
         IF properties.some
         THEN [kind |-> "Compound",
               entries |-> { <<e[1], StringTag(e[2])>> : e \in properties.value }]
         ELSE [kind |-> "Missing", entries |-> {}]]

BlockStateNewCall ==
    /\ call.op = "block_state_start"
    /\ call' = [op |-> "block_state_new", name |-> call.name,
                result |-> BlockStateNew(call.name, call.properties)]
    /\ UNCHANGED <<array, region, nbt, decoded, phase, edits>>

BlockStateSetBlockCall(block) ==
    /\ call.op = "block_state_new"
    /\ call' = [op |-> "block_state_set_block", name |-> block,
                result |-> BlockStateSetBlock(call.result, block)]
    /\ UNCHANGED <<array, region, nbt, decoded, phase, edits>>

BlockStateNewFromNbtCall ==
    /\ call.op = "block_state_start"
    /\ call' = [op |-> "block_state_new_from_nbt", name |-> call.name,
                result |-> BlockStateNewFromNbt(StateCompound(call.name,
                                                              call.properties)).value]
    /\ UNCHANGED <<array, region, nbt, decoded, phase, edits>>

(* BlockState::new on the name get_block returns, with the same properties *)
BlockStateNewOfGetBlock ==
    /\ call.op = "block_state_new"
    /\ call' = [op |-> "block_state_new_again", name |-> call.name,
                first |-> call.result,
                result |-> BlockStateNew(get_block(call.result),
                                         Some(call.result.properties))]
    /\ UNCHANGED <<array, region, nbt, decoded, phase, edits>>

(* two equal BlockStates hashed, each map yielding its entries in an order *)
(* of its own                                                              *)
HashEqualStates ==
    /\ call.op = "block_state_new"
    /\ \E first \in IterationOrders(call.result.properties),
          second \in IterationOrders(call.result.properties) :
           call' = [op |-> "block_state_hash", name |-> call.name,
                    state |-> call.result,
                    first |-> HashInput(call.result, first),
                    second |-> HashInput(call.result, second)]
    /\ UNCHANGED <<array, region, nbt, decoded, phase, edits>>

InitBlockState ==
    /\ call \in { [op |-> "block_state_start", name |-> n, properties |-> ps] :
                      n \in NameInputs, ps \in PropertyInputs }
    /\ array = <<>>
    /\ region = RegionNew
    /\ nbt = NotYet
    /\ decoded = NotYet
    /\ phase = "block_state"
    /\ edits = 0

NextBlockState ==
    \/ BlockStateNewCall
    \/ \E block \in NameInputs : BlockStateSetBlockCall(block)
    \/ BlockStateNewFromNbtCall
    \/ BlockStateNewOfGetBlock
    \/ HashEqualStates

SpecBlockState == InitBlockState /\ [][NextBlockState]_vars

----------------------------------------------------------------------------
(* SpecEncode: a Region made by Region::new(), filled by set_block at the  *)
(* coordinates of test_generate_block_data or at a negative coordinate,    *)
(* and encoded by to_nbt.                                                  *)

MaxEncodeEdits == 4

EncodeCoords == { <<0, 0, 0>>, <<2, 1, 0>>, <<2, 2, 0>>, <<5, 2, 1>>, <<-1, 0, 0>> }

EncodeSetBlock(pos, block) ==
    SetBlockCall(pos, block, MaxEncodeEdits, [op |-> "set_block", pos |-> pos])

NextEncode ==
    \/ \E pos \in EncodeCoords, name \in NameSamples :
           EncodeSetBlock(pos, BlockStateNew(name, None))
    \/ ToNbt

SpecEncode == Init /\ [][NextEncode]_vars

----------------------------------------------------------------------------
(* SpecUnpack: Region::unpack_packed_array applied, as new_from_nbt        *)
(* applies it, to a word array, a parsed palette and a declared size.      *)

(* the parsed palettes: the one of test_unpack_packed_array, and palettes  *)
(* of 3 and 5 states (2-bit and 3-bit fields)                              *)
UnpackPalettes ==
    { <<Air, BlockStateNew(Stone, None)>>,
      <<Air, BlockStateNew(Stone, None), BlockStateNew(Basalt, None)>>,
      <<Air, BlockStateNew(Stone, None), BlockStateNew(Basalt, None),
        BlockStateNew(StoneBricks, None), BlockStateNew(Stone, None)>> }

(* no word, the word of test_unpack_packed_array, i64::MIN, and two words *)
UnpackWords ==
    { <<>>, <<Word1111>>, <<Word2121>>, <<{SignBit}>>, <<{}>>,
      <<Word1111, Word2121>>, <<Word1111, {SignBit}>>, TestArray(2) }

(* 32 cells (one word of 2-bit fields), fewer, none, more than two words   *)
(* hold, and sizes with a negative component                               *)
UnpackSizes ==
    { <<2, 4, 4>>, <<1, 1, 1>>, <<2, 3, 3>>, <<0, 0, 0>>, <<4, 6, 5>>,
      <<2, -3, 3>>, <<-2, 3, 3>> }

UnpackPackedArray ==
    /\ call.op = "unpack_start"
    /\ call' = [op |-> "unpack_packed_array",
                words |-> call.words,
                palette |-> call.palette,
                bits |-> calculate_bits(Len(call.palette)),
                size |-> call.size,
                result |-> unpack_packed_array(call.words, call.palette,
                                               calculate_bits(Len(call.palette)),
                                               call.size)]
    /\ UNCHANGED <<array, region, nbt, decoded, phase, edits>>

InitUnpack ==
    /\ call \in { [op |-> "unpack_start", words |-> w, palette |-> p, size |-> sz] :
                      w \in UnpackWords, p \in UnpackPalettes, sz \in UnpackSizes }
    /\ array = <<>>
    /\ region = RegionNew
    /\ nbt = NotYet
    /\ decoded = NotYet
    /\ phase = "unpack"
    /\ edits = 0

NextUnpack == UnpackPackedArray

SpecUnpack == InitUnpack /\ [][NextUnpack]_vars

----------------------------------------------------------------------------
(* SpecPaletteList: Region::parse_palette applied to a BlockStatePalette   *)
(* list, and Region::new_from_nbt applied to a region compound holding it. *)

MaxPaletteListLength == 3

(* the elements of a list: block-state compounds (one with an upper-case   *)
(* name, one with a property), a tag that is no compound, a compound       *)
(* without Name and a compound whose Properties is no compound             *)
PaletteElements ==
    { RawState(AirName),
      RawState(<<"S", "t", "o", "n", "e">>),
      [kind |-> "Compound", name |-> StringTag(Basalt),
       properties |-> [kind |-> "Compound",
                       entries |-> { <<"axis", StringTag(<<"y">>)>> }]],
      IntTag(1),
      [kind |-> "Compound", name |-> MissingText,
       properties |-> [kind |-> "Missing", entries |-> {}]],
      [kind |-> "Compound", name |-> StringTag(Stone),
       properties |-> [kind |-> "String", entries |-> {}]] }

PaletteLists ==
    UNION { [1 .. len -> PaletteElements] : len \in 0 .. MaxPaletteListLength }

(* a region compound with the list as its BlockStatePalette *)
PaletteDoc(items) ==
    [palette |-> [kind |-> "List", items |-> items],
     block_states |-> [kind |-> "LongArray", words |-> <<>>],
     position |-> VecTag(ZeroVec),
     size |-> VecTag(ZeroVec),
     entities |-> None,
     pending_block_ticks |-> None,
     pending_fluid_ticks |-> None,
     tile_entities |-> None]

ParsePalette ==
    /\ call.op = "palette_list_start"
    /\ call' = [op |-> "parse_palette", items |-> call.items,
                result |-> parse_palette(call.items)]
    /\ UNCHANGED <<array, region, nbt, decoded, phase, edits>>

(* Region::new_from_nbt on the compound holding the list *)
NewFromNbtOfPalette ==
    /\ call.op = "palette_list_start"
    /\ \E out \in new_from_nbt(PaletteDoc(call.items)) :
           call' = [op |-> "new_from_nbt_of_palette", items |-> call.items,
                    result |-> out]
    /\ UNCHANGED <<array, region, nbt, decoded, phase, edits>>

InitPaletteList ==
    /\ call \in { [op |-> "palette_list_start", items |-> items] : items \in PaletteLists }
    /\ array = <<>>
    /\ region = RegionNew
    /\ nbt = NotYet
    /\ decoded = NotYet
    /\ phase = "palette_list"
    /\ edits = 0

NextPaletteList ==
    \/ ParsePalette
    \/ NewFromNbtOfPalette

SpecPaletteList == InitPaletteList /\ [][NextPaletteList]_vars

----------------------------------------------------------------------------
(* SpecSignedSize: Region::index_to_coords, and the decoding that uses it, *)
(* applied to a size whose components may be negative.                     *)

MaxSignedSide == 3

(* the sizes with no zero component, among them (2,-3,3) of                *)
(* test_index_to_coords                                                    *)
SignedSizes ==
    { <<x, y, z>> : x \in ((-MaxSignedSide) .. MaxSignedSide) \ {0},
                    y \in ((-MaxSignedSide) .. MaxSignedSide) \ {0},
                    z \in ((-MaxSignedSide) .. MaxSignedSide) \ {0} }

IndexToCoordsOfSignedSize(i) ==
    /\ call.op = "signed_size_start"
    /\ call' = [op |-> "index_to_coords_of_signed_size", size |-> call.size, index |-> i,
                result |-> index_to_coords(call.size, i)]
    /\ UNCHANGED <<array, region, nbt, decoded, phase, edits>>

(* unpack_packed_array on the word and palette of test_unpack_packed_array *)
(* with the signed size as the declared Size                               *)
UnpackOfSignedSize ==
    /\ call.op = "signed_size_start"
    /\ call' = [op |-> "unpack_of_signed_size", size |-> call.size,
                words |-> <<Word1111>>,
                result |-> unpack_packed_array(<<Word1111>>,
                                               <<Air, BlockStateNew(Stone, None)>>,
                                               calculate_bits(2), call.size)]
    /\ UNCHANGED <<array, region, nbt, decoded, phase, edits>>

InitSignedSize ==
    /\ call \in { [op |-> "signed_size_start", size |-> sz] : sz \in SignedSizes }
    /\ array = <<>>
    /\ region = RegionNew
    /\ nbt = NotYet
    /\ decoded = NotYet
    /\ phase = "signed_size"
    /\ edits = 0

NextSignedSize ==
    \/ \E i \in IndexSamples(call.size) : IndexToCoordsOfSignedSize(i)
    \/ UnpackOfSignedSize

SpecSignedSize == InitSignedSize /\ [][NextSignedSize]_vars

----------------------------------------------------------------------------
(* Properties of the sizing functions and of the packed-array codec.       *)

(* the set bits of a word array, numbered from bit 0 of its first word *)
AbsoluteBits(arr) ==
    { WordBits * (k - 1) + p : k \in 1 .. Len(arr), p \in BitPositions } \cap
    { q \in 0 .. (WordBits * Len(arr) - 1) : (q % WordBits) \in arr[(q \div WordBits) + 1] }

(* the bit offsets a field owns *)
FieldSpan(i, b) == (i * b) .. (i * b + b - 1)

(* the b bits at bit offset i*b of the words' little-endian concatenation *)
FieldBits(arr, i, b) == { q - i * b : q \in AbsoluteBits(arr) \cap FieldSpan(i, b) }

(* C2: get_index_out_of_packed_array(words, i, b) returns the unsigned     *)
(* integer formed by the b bits at bit offset i*b of the concatenated      *)
(* words, a value in [0, 2^b), whatever the other bits are; on the test's  *)
(* words with b = 7, fields 0, 1, 9, 10 are 111, 27, 124, 115.             *)
C2_GetReturnsField ==
    call.op = "get" =>
        /\ IsOk(call.result)
        /\ call.result.value \subseteq LowMask(call.bits)
        /\ call.result.value = FieldBits(array, call.position, call.bits)
        /\ (array = TestArray(2) /\ call.bits = 7) =>
               /\ call.position = 0 => call.result.value = WordOfNat(111)
               /\ call.position = 1 => call.result.value = WordOfNat(27)
               /\ call.position = 9 => call.result.value = WordOfNat(124)
               /\ call.position = 10 => call.result.value = WordOfNat(115)

(* C3: after set_index_in_packed_array(words, v, i, b) with v in [0, 2^b)  *)
(* and i*b < 64*L, get_index_out_of_packed_array(words, i, b) returns v.   *)
C3_SetThenGet ==
    (/\ call.op = "set_get"
     /\ call.value \subseteq LowMask(call.bits)
     /\ call.position * call.bits < WordBits * Len(array)) =>
        /\ IsOk(call.result)
        /\ call.result.value = call.value

(* C4: set_index_in_packed_array changes only the bits at absolute offsets *)
(* [i*b, i*b+b): every other bit of every word is as before, and the       *)
(* array keeps its length.                                                 *)
C4_SetTouchesOnlyItsField ==
    call.op = "set" =>
        /\ Len(array) = Len(call.before)
        /\ AbsoluteBits(array) \ FieldSpan(call.position, call.bits)
               = AbsoluteBits(call.before) \ FieldSpan(call.position, call.bits)

(* a set of a field that straddles two words of the test array and changes it *)
C4_Witness ==
    /\ call.op = "set"
    /\ call.before = TestArray(2)
    /\ ((call.position * call.bits) % WordBits) + call.bits > WordBits
    /\ (call.position * call.bits) \div WordBits = 0
    /\ array[1] # call.before[1]
    /\ array[2] # call.before[2]

(* C9: calculate_bits(n) is the smallest b >= 2 with 2^b >= n, for every n *)
(* >= 1; 1->2, 2->2, 3->2, 15->4, 16->4, 54->6, 1360->11.                  *)
C9_CalculateBitsIsMinimalWidth ==
    call.op = "calculate_bits" =>
        /\ call.result >= 2
        /\ Pow2(call.result) >= call.length
        /\ \A c \in 2 .. (call.result - 1) : Pow2(c) < call.length
        /\ call.length \in {1, 2, 3} => call.result = 2
        /\ call.length \in {15, 16} => call.result = 4
        /\ call.length = 54 => call.result = 6
        /\ call.length = 1360 => call.result = 11

C9_Witness ==
    /\ call.op = "calculate_bits"
    /\ call.length = 1360
    /\ call.result = 11

(* ceil(count * bits / 64), the product taken exactly *)
ExactWordCount(count, bits) ==
    (count \div Half) * bits * (Half \div WordBits)
        + ((count % Half) * bits + WordBits - 1) \div WordBits

(* C10: calculate_amt_of_longs(count, bits) equals ceil(count*bits/64) for *)
(* every non-negative 32-bit count and every bits in [1,32], the product   *)
(* not wrapping; 100x1->2, 128x1->2, 128x2->4, 683x5->54.                  *)
C10_AmtOfLongsIsCeiling ==
    call.op = "calculate_amt_of_longs" =>
        /\ IsOk(call.result)
        /\ call.result.value = ExactWordCount(call.region_volume, call.bits)
        /\ (call.region_volume = 100 /\ call.bits = 1) => call.result.value = 2
        /\ (call.region_volume = 128 /\ call.bits = 1) => call.result.value = 2
        /\ (call.region_volume = 128 /\ call.bits = 2) => call.result.value = 4
        /\ (call.region_volume = 683 /\ call.bits = 5) => call.result.value = 54

----------------------------------------------------------------------------
(* Properties of the Region round trip.                                    *)

(* C1: for a Region built from Region::new() by set_block calls,           *)
(* new_from_nbt(to_nbt(r)) succeeds and its block map equals r.blocks():   *)
(* the same coordinate -> state pairs and no others.                       *)
C1_RoundTripBlocks ==
    (phase = "new" /\ decoded.status # "none") =>
        /\ IsOk(decoded)
        /\ decoded.value.blocks = region.blocks

(* C8: for a Region built from Region::new() by set_block calls, the       *)
(* Region decoded from to_nbt(r) has volume() equal to r.volume(), and the *)
(* Volume to_nbt returns is r.volume().                                    *)
C8_RoundTripVolume ==
    (phase = "new" /\ decoded.status # "none") =>
        /\ IsOk(decoded)
        /\ nbt.value.volume \in RegionVolume(region)
        /\ \A v \in RegionVolume(decoded.value) : v = nbt.value.volume

----------------------------------------------------------------------------
(* Properties of Region's block map and volume.                            *)

(* the Regions the program holds: the one under edit and the one decoded *)
HeldRegions ==
    {region} \cup (IF IsOk(decoded) THEN {decoded.value} ELSE {})

(* C5: after any sequence of Region::new, new_from_nbt and set_block, the  *)
(* block map holds no entry whose value is the air state: decoding never   *)
(* inserts air and set_block with air never stores it.                     *)
C5_NoAirStored ==
    \A r \in HeldRegions : \A c \in DOMAIN r.blocks : r.blocks[c] # Air

(* a decoded Region, its palette naming air, after set_block(pos, air) on a stored block *)
C5_Witness ==
    /\ phase = "parsed"
    /\ call.op = "set_block"
    /\ call.block = Air
    /\ call.pos \in DOMAIN call.before.blocks
    /\ DOMAIN region.blocks # {}

(* C6: set_block(pos, state) removes the entry at pos when state is air (a *)
(* no-op if absent) and otherwise makes blocks[pos] = state; the entries   *)
(* at every other coordinate, the declared volume and the four payload     *)
(* fields are unchanged.                                                   *)
C6_SetBlockUpdatesOneKey ==
    call.op = "set_block" =>
        /\ call.block = Air => call.pos \notin DOMAIN region.blocks
        /\ call.block # Air =>
               call.pos \in DOMAIN region.blocks /\ region.blocks[call.pos] = call.block
        /\ DOMAIN region.blocks \ {call.pos} = DOMAIN call.before.blocks \ {call.pos}
        /\ \A c \in DOMAIN call.before.blocks \ {call.pos} :
               region.blocks[c] = call.before.blocks[c]
        /\ region.volume = call.before.volume
        /\ region.entities = call.before.entities
        /\ region.pending_block_ticks = call.before.pending_block_ticks
        /\ region.pending_fluid_ticks = call.before.pending_fluid_ticks
        /\ region.tile_entities = call.before.tile_entities

(* a stored block overwritten by another state in a Region that has payloads *)
C6_Witness ==
    /\ call.op = "set_block"
    /\ call.pos \in DOMAIN call.before.blocks
    /\ call.block # Air
    /\ call.before.blocks[call.pos] # call.block
    /\ region.blocks[call.pos] = call.block
    /\ region.entities.some
    /\ Cardinality(DOMAIN region.blocks) > 1

(* the unit cell at k lies in the volume n, whose size is non-negative *)
ContainsCell(n, k) == \A i \in Axes : n.pos1[i] <= k[i] /\ k[i] + 1 <= n.pos2[i]

(* every cell of the volume d lies in n, both of non-negative size *)
ContainsVolume(n, d) == \A i \in Axes : n.pos1[i] <= d.pos1[i] /\ d.pos2[i] <= n.pos2[i]

(* C7: for every Region reachable through new, new_from_nbt and set_block, *)
(* the point set of region.volume() holds every cell of the declared       *)
(* volume and the cell k of every key k present in blocks.                 *)
C7_EffectiveVolumeHoldsKeys ==
    \A r \in HeldRegions : \A vol \in RegionVolume(r) :
        /\ ContainsVolume(make_size_positive(vol), make_size_positive(r.volume))
        /\ \A k \in DOMAIN r.blocks : ContainsCell(make_size_positive(vol), k)

----------------------------------------------------------------------------
(* Properties of the coordinate conversions.                               *)

(* 0 <= p < sz on every axis *)
InsideSize(sz, p) == \A i \in Axes : 0 <= p[i] /\ p[i] < sz[i]

(* the position of index in the order x fastest, then z, then y *)
LinearIndex(sz, p) == p[2] * sz[1] * sz[3] + p[3] * sz[1] + p[1]

(* C11: for a size with every component >= 0, index_to_coords(s, i) of an  *)
(* index i < s.x*s.y*s.z is Some(p) with 0 <= p < s and coords_to_index(s, *)
(* p) = Some(i); for 0 <= p < s, index_to_coords(s, coords_to_index(s, p)) *)
(* = Some(p); and the index is y*s.x*s.z + z*s.x + x.                      *)
C11_CoordinateBijection ==
    /\ (call.op = "index_to_coords" /\ call.index < call.size[1] * call.size[2] * call.size[3]) =>
           /\ call.result.some
           /\ InsideSize(call.size, call.result.value)
           /\ LinearIndex(call.size, call.result.value) = call.index
    /\ call.op = "index_to_coords_to_index" => call.result = Some(call.index)
    /\ (call.op = "coords_to_index" /\ InsideSize(call.size, call.pos)) =>
           call.result = Some(LinearIndex(call.size, call.pos))
    /\ call.op = "coords_to_index_to_coords" => call.result = Some(call.pos)

(* index 53 of the size (4, 6, 5) converted to (1, 2, 3) and back *)
C11_Witness ==
    /\ call.op = "index_to_coords_to_index"
    /\ call.size = <<4, 6, 5>>
    /\ call.index = 53
    /\ call.pos = <<1, 2, 3>>
    /\ call.result = Some(53)

(* C12: for a non-negative size, coords_to_index(s, p) is None exactly     *)
(* when p is outside [0, s) on some axis, and index_to_coords(s, i) is     *)
(* None exactly when i >= volume(s); neither call fails.                   *)
C12_NoneExactlyOutOfRange ==
    /\ call.op = "coords_to_index" =>
           call.result.some = InsideSize(call.size, call.pos)
    /\ call.op = "index_to_coords" =>
           call.result.some = (call.index < call.size[1] * call.size[2] * call.size[3])

(* an index asked of a size with a zero component, answered None *)
C12_Witness ==
    /\ call.op = "index_to_coords"
    /\ call.size = <<0, 0, 0>>
    /\ call.index = 1
    /\ call.result = None

----------------------------------------------------------------------------
(* Properties of Volume.                                                   *)

(* the unit cells of a volume: per axis from its smaller corner up to, not *)
(* including, its larger one                                               *)
CellsOf(vol) ==
    { <<x, y, z>> :
          x \in Min(vol.pos1[1], vol.pos2[1]) .. (Max(vol.pos1[1], vol.pos2[1]) - 1),
          y \in Min(vol.pos1[2], vol.pos2[2]) .. (Max(vol.pos1[2], vol.pos2[2]) - 1),
          z \in Min(vol.pos1[3], vol.pos2[3]) .. (Max(vol.pos1[3], vol.pos2[3]) - 1) }

(* C13: expand_to_fit(p) returns a volume whose point set holds the unit   *)
(* cell p and every cell of the original volume, for sizes of any sign on  *)
(* each axis; Volume((0,-1,0),(1,2,1)).expand_to_fit((2,-2,1)) is          *)
(* Volume((0,-2,0),(3,3,2)).                                               *)
C13_ExpandToFitHoldsCell ==
    call.op = "expand_to_fit" =>
        /\ call.vector \in CellsOf(call.result)
        /\ CellsOf(call.volume) \subseteq CellsOf(call.result)
        /\ (call.volume = VolumeNew(<<0, -1, 0>>, <<1, 2, 1>>) /\ call.vector = <<2, -2, 1>>)
               => call.result = VolumeNew(<<0, -2, 0>>, <<3, 3, 2>>)

(* a volume of size zero on x and negative size on y, expanded on all three axes *)
C13_Witness ==
    /\ call.op = "expand_to_fit"
    /\ size(call.volume)[1] = 0
    /\ size(call.volume)[2] < 0
    /\ size(call.volume)[3] > 0
    /\ \A i \in Axes : Abs(size(call.result)[i]) > Abs(size(call.volume)[i])
    /\ call.vector[1] >= call.volume.pos1[1]

(* C14: expand_to_fit_volume(other) returns a volume whose point set holds *)
(* every cell of self and every cell of other, other of any sign of size;  *)
(* Volume((0,0,0),(1,1,2)).expand_to_fit_volume(Volume((0,-1,0),(1,2,1)))  *)
(* is Volume((0,-1,0),(1,2,2)).                                            *)
C14_ExpandToFitVolumeHoldsBoth ==
    call.op = "expand_to_fit_volume" =>
        /\ CellsOf(call.volume) \subseteq CellsOf(call.result)
        /\ CellsOf(call.other) \subseteq CellsOf(call.result)
        /\ (call.volume = VolumeNew(<<0, 0, 0>>, <<1, 1, 2>>)
                /\ call.other = VolumeNew(<<0, -1, 0>>, <<1, 2, 1>>))
               => call.result = VolumeNew(<<0, -1, 0>>, <<1, 2, 2>>)

(* another volume of negative size on x, with cells outside self *)
C14_Witness ==
    /\ call.op = "expand_to_fit_volume"
    /\ size(call.other)[1] < 0
    /\ CellsOf(call.other) # {}
    /\ CellsOf(call.volume) # {}
    /\ CellsOf(call.other) \cap CellsOf(call.volume) = {}

(* C15: make_size_positive returns a volume of size >= 0 on every axis     *)
(* with, per axis, the same unordered pair of corners (so the same         *)
(* volume()); it is the identity on a volume of non-negative size;         *)
(* Volume((2,3,4),(-2,5,-7)) becomes Volume((0,3,-3),(2,5,7)).             *)
C15_MakeSizePositiveKeepsSpan ==
    call.op = "make_size_positive" =>
        /\ \A i \in Axes : size(call.result)[i] >= 0
        /\ \A i \in Axes : {call.result.pos1[i], call.result.pos2[i]}
                               = {call.volume.pos1[i], call.volume.pos2[i]}
        /\ VolumeOf(call.result) = VolumeOf(call.volume)
        /\ (\A i \in Axes : size(call.volume)[i] >= 0) => call.result = call.volume
        /\ call.volume = VolumeNew(<<2, 3, 4>>, <<-2, 5, -7>>)
               => call.result = VolumeNew(<<0, 3, -3>>, <<2, 5, 7>>)

C15_Witness ==
    /\ call.op = "make_size_positive"
    /\ call.volume = VolumeNew(<<2, 3, 4>>, <<-2, 5, -7>>)
    /\ call.result = VolumeNew(<<0, 3, -3>>, <<2, 5, 7>>)

(* the k-th cell, from 0, of a volume in the order x fastest, then z, then *)
(* y, from its smallest corner                                             *)
CellInOrder(vol, k) ==
    LET n == make_size_positive(vol)
        sx == n.pos2[1] - n.pos1[1]
        sz == n.pos2[3] - n.pos1[3]
    IN  <<n.pos1[1] + (k % sx), n.pos1[2] + (k \div (sx * sz)),
          n.pos1[3] + ((k \div sx) % sz)>>

(* C16: an iterator yields every cell of the normalized volume once, x     *)
(* fastest, then z, then y, from the smallest corner: volume() cells; then *)
(* None on every later call; each iter() starts from the first cell.       *)
C16_IterYieldsEveryCellInOrder ==
    call.op = "iter" =>
        /\ \A j \in 1 .. Len(call.yielded) :
               call.yielded[j] = IF j <= VolumeOf(call.volume)
                                 THEN Some(CellInOrder(call.volume, j - 1))
                                 ELSE None
        /\ Len(call.yielded) >= VolumeOf(call.volume) =>
               /\ { call.yielded[j].value : j \in 1 .. VolumeOf(call.volume) }
                      = CellsOf(call.volume)
               /\ Cardinality(CellsOf(call.volume)) = VolumeOf(call.volume)

(* a second iterator of a volume of negative size, run past its last cell *)
C16_Witness ==
    /\ call.op = "iter"
    /\ call.earlier = 1
    /\ size(call.volume)[2] < 0
    /\ VolumeOf(call.volume) >= 4
    /\ Len(call.yielded) = VolumeOf(call.volume) + 2
    /\ call.yielded[Len(call.yielded)] = None

----------------------------------------------------------------------------
(* Properties of the palette built on encode.                              *)

(* C17: the palette generate_palette_nbt builds has air at index 0, then   *)
(* every distinct state stored in the map exactly once; no two entries are *)
(* equal and its length is 1 + the number of distinct stored states.       *)
C17_PaletteHoldsEachStateOnce ==
    call.op = "generate_palette_nbt" =>
        /\ call.result[1] = Air
        /\ { call.result[k] : k \in 2 .. Len(call.result) } = Range(call.blocks)
        /\ \A i, j \in DOMAIN call.result : call.result[i] = call.result[j] => i = j
        /\ Len(call.result) = 1 + Cardinality(Range(call.blocks))

----------------------------------------------------------------------------
(* Properties of the fields Region::to_nbt writes.                         *)

(* C18: the Size Region::to_nbt writes is non-negative on every axis, for  *)
(* every Region reachable through new, new_from_nbt and set_block, one     *)
(* holding blocks at negative coordinates included.                        *)
C18_SizeWrittenIsNonNegative ==
    IsOk(nbt) => \A i \in Axes : nbt.value.compound.size.vec[i] >= 0

----------------------------------------------------------------------------
(* Properties of Schematic::from_buffer.                                   *)

(* C19: on a well-formed document whose Version is a value other than 5,   *)
(* from_buffer returns Err(UnsupportedVersionNumber(v)) with that value,   *)
(* whatever Metadata and Regions hold, and no Schematic; with Version 5    *)
(* the result is never that error.                                         *)
C19_VersionCheckedFirst ==
    (call.op = "from_buffer" /\ call.doc.readable /\ call.doc.version.kind = "Int") =>
        /\ call.doc.version.value # 5 =>
               call.result = LitematicErr("UnsupportedVersionNumber", "",
                                          call.doc.version.value)
        /\ call.doc.version.value = 5 =>
               ~(call.result.status = "err"
                     /\ call.result.error = "UnsupportedVersionNumber")

(* Version 6 in a document with no Metadata and a region that does not decode *)
C19_Witness ==
    /\ call.op = "from_buffer"
    /\ call.doc.readable
    /\ call.doc.version = IntTag(6)
    /\ call.doc.metadata.kind = "Missing"
    /\ call.doc.regions.kind = "Compound"
    /\ "broken" \in DOMAIN call.doc.regions.entries
    /\ call.result = LitematicErr("UnsupportedVersionNumber", "", 6)

(* the entries of Regions that do not decode to a Region *)
FailingEntries(doc) ==
    IF doc.regions.kind # "Compound" THEN {}
    ELSE { n \in DOMAIN doc.regions.entries :
               \/ doc.regions.entries[n].kind # "Compound"
               \/ \E out \in new_from_nbt(doc.regions.entries[n].compound) : ~IsOk(out) }

(* C20: if any one region fails to decode, or an entry of Regions is not a *)
(* compound, from_buffer returns an error and no Schematic, whatever the   *)
(* other regions are and in whatever order they are visited; it returns Ok *)
(* only when every region decodes.                                         *)
C20_DecodeIsAllOrNothing ==
    call.op = "from_buffer" =>
        /\ FailingEntries(call.doc) # {} => call.result.status = "err"
        /\ IsOk(call.result) =>
               /\ FailingEntries(call.doc) = {}
               /\ DOMAIN call.result.value.regions = DOMAIN call.doc.regions.entries

----------------------------------------------------------------------------
(* Properties of the opaque payload lists.                                 *)

PayloadFields ==
    { "entities", "pending_block_ticks", "pending_fluid_ticks", "tile_entities" }

(* C21: each of Entities, PendingBlockTicks, PendingFluidTicks and         *)
(* TileEntities, on its own: a list the region compound holds is the list  *)
(* the Region keeps, set_block leaves it as it is, and to_nbt writes it    *)
(* equal; one the compound lacks is kept as None and left out by to_nbt,   *)
(* never written as an empty list.  BlockStatePalette and BlockStates are  *)
(* always written, for an empty Region too.                                *)
C21_PayloadPassthrough ==
    /\ (call.op = "new_from_nbt_of_document" /\ phase = "parsed") =>
           \A f \in PayloadFields :
               region[f] = IF call.doc[f].some /\ call.doc[f].value.kind = "List"
                           THEN Some(call.doc[f].value.items) ELSE None
    /\ call.op = "set_block" =>
           \A f \in PayloadFields : region[f] = call.before[f]
    /\ IsOk(nbt) =>
           /\ \A f \in PayloadFields :
                  /\ nbt.value.compound[f].some = region[f].some
                  /\ region[f].some =>
                         nbt.value.compound[f].value = ListTag(region[f].value)
           /\ nbt.value.compound.palette.kind = "List"
           /\ nbt.value.compound.block_states.kind = "LongArray"

(* a decoded Region with some payload lists and without others, edited and encoded *)
C21_Witness ==
    /\ phase = "parsed"
    /\ IsOk(nbt)
    /\ edits > 0
    /\ nbt.value.compound.entities = Some(ListTag(<<"entity">>))
    /\ nbt.value.compound.pending_fluid_ticks = Some(ListTag(<<>>))
    /\ nbt.value.compound.pending_block_ticks = None

----------------------------------------------------------------------------
(* Properties of BlockState.                                               *)

IsLowerCase(name) == \A k \in DOMAIN name : \A u \in DOMAIN UpperCase : name[k] # UpperCase[u]

(* the characters of a name, lowered one by one *)
Lowered(name) == [k \in DOMAIN name |-> ToLowerChar(name[k])]

(* C22: after BlockState::new, BlockState::set_block or new_from_nbt with  *)
(* any name the identifier is all lowercase and holds a ':', a name        *)
(* without ':' getting the prefix minecraft:; BlockState::new of the       *)
(* identifier of BlockState::new(x) is BlockState::new(x); air and Air     *)
(* give minecraft:air, CoOlMoD:aIr gives coolmod:air.                      *)
C22_IdentifierNormalized ==
    /\ call.op \in {"block_state_new", "block_state_set_block", "block_state_new_from_nbt"} =>
           /\ IsLowerCase(call.result.block)
           /\ ContainsColon(call.result.block)
           /\ call.result.block = IF ContainsColon(call.name)
                                  THEN Lowered(call.name)
                                  ELSE MinecraftPrefix \o Lowered(call.name)
           /\ call.name \in {AirName, <<"A", "i", "r">>} =>
                  call.result.block = MinecraftPrefix \o AirName
           /\ call.name = <<"C", "o", "O", "l", "M", "o", "D", ":", "a", "I", "r">> =>
                  call.result.block = <<"c", "o", "o", "l", "m", "o", "d", ":", "a", "i", "r">>
    /\ call.op = "block_state_new_again" => call.result = call.first

(* a BlockState renamed to CoOlMoD:aIr *)
C22_Witness ==
    /\ call.op = "block_state_set_block"
    /\ call.name = <<"C", "o", "O", "l", "M", "o", "D", ":", "a", "I", "r">>
    /\ call.result.block = <<"c", "o", "o", "l", "m", "o", "d", ":", "a", "i", "r">>
    /\ call.result.properties # {}

(* C23: two BlockStates with the same identifier and the same set of       *)
(* property pairs feed the hasher the same sequence of data, in whatever   *)
(* order each one's property map yields its entries.                       *)
C23_HashFollowsEquality ==
    call.op = "block_state_hash" => call.first = call.second

----------------------------------------------------------------------------
(* Properties of Region::to_nbt's block-state encoding                     *)

(* C24: for every Region reached through Region::new, Region::new_from_nbt *)
(* (whatever Position and Size the compound declares) and set_block,       *)
(* to_nbt finds for every stored key k an index                            *)
(* coords_to_index(size, k - origin) == Some(_) in the normalized          *)
(* effective volume, so it never runs unreachable!() and never writes past *)
(* the end of the word array: to_nbt does not abort.                       *)
C24_EncodeNeverUnreachable ==
    call.op = "to_nbt" =>
        /\ nbt.status # "panic"
        /\ \A vol \in RegionVolume(region) : \A k \in DOMAIN region.blocks :
               coords_to_index(size(make_size_positive(vol)),
                               VecSub(k, origin(make_size_positive(vol)))).some

(* the 0-based position of the first palette tag equal to the tag of state *)
PaletteTagPosition(items, state) ==
    (CHOOSE k \in DOMAIN items :
         /\ items[k] = BlockStateToNbt(state)
         /\ \A j \in 1 .. (k - 1) : items[j] # BlockStateToNbt(state)) - 1

(* C25: for a Region built from Region::new() by set_block calls, the word *)
(* array to_nbt gets from generate_block_states_nbt has exactly            *)
(* ceil(cells*bits/64) words, cells counting the cells of the normalized   *)
(* effective volume and bits = calculate_bits(palette length); for every   *)
(* cell c with linear index j the bits at offsets [j*bits, j*bits+bits)    *)
(* hold the palette position of the state stored at c, or 0 when no block  *)
(* is stored at c; every other bit is 0.                                   *)
C25_EncodedWordsHoldPalettePositions ==
    (phase = "new" /\ nbt # NotYet) =>
        /\ IsOk(nbt)
        /\ LET vol == make_size_positive(nbt.value.volume)
               items == nbt.value.compound.palette.items
               words == nbt.value.compound.block_states.words
               cells == Cardinality(CellsOf(vol))
               bits == calculate_bits(Len(items))
               set_bits == AbsoluteBits(words)
               Held(j) == { q - j * bits : q \in set_bits \cap FieldSpan(j, bits) }
           IN  /\ Len(words) = (cells * bits + (WordBits - 1)) \div WordBits
               /\ region.blocks = <<>> => Len(words) = 0
               /\ DOMAIN region.blocks \subseteq CellsOf(vol)
               /\ \A c \in CellsOf(vol) :
                      Held(LinearIndex(size(vol), VecSub(c, origin(vol)))) =
                          WordOfNat(IF c \in DOMAIN region.blocks
                                    THEN PaletteTagPosition(items, region.blocks[c])
                                    ELSE 0)
               /\ set_bits \subseteq 0 .. (cells * bits - 1)

(* the region of test_generate_block_data encoded into two words, basalt   *)
(* at (5,2,1) and nothing at (1,0,1)                                       *)
C25_Witness ==
    /\ phase = "new"
    /\ IsOk(nbt)
    /\ DOMAIN region.blocks = { <<0, 0, 0>>, <<2, 1, 0>>, <<2, 2, 0>>, <<5, 2, 1>> }
    /\ region.blocks[<<0, 0, 0>>] = BlockStateNew(Stone, None)
    /\ region.blocks[<<2, 1, 0>>] = BlockStateNew(StoneBricks, None)
    /\ region.blocks[<<2, 2, 0>>] = BlockStateNew(StoneBricks, None)
    /\ region.blocks[<<5, 2, 1>>] = BlockStateNew(Basalt, None)
    /\ Len(nbt.value.compound.palette.items) = 4
    /\ Len(nbt.value.compound.block_states.words) = 2
    /\ FieldBits(nbt.value.compound.block_states.words,
                 LinearIndex(<<6, 3, 2>>, <<5, 2, 1>>), 2) =
           WordOfNat(PaletteTagPosition(nbt.value.compound.palette.items,
                                        BlockStateNew(Basalt, None)))
    /\ FieldBits(nbt.value.compound.block_states.words,
                 LinearIndex(<<6, 3, 2>>, <<1, 0, 1>>), 2) = {}

----------------------------------------------------------------------------
(* Properties of Region::unpack_packed_array                               *)

(* the number of fields unpack_packed_array is to examine *)
ExaminedCount(words, bits, sz) == Min((WordBits * Len(words)) \div bits, VecVolume(sz))

(* the unsigned value of field i *)
FieldValue(words, i, bits) == NatOfWord(FieldBits(words, i, bits))

(* C26: unpack_packed_array(words, palette, bits, size) examines exactly   *)
(* the indices 0 <= i < min(floor(64*len(words)/bits), volume(size)); for  *)
(* each such i whose field value f resolves to a non-air palette entry     *)
(* the result maps index_to_coords(size, i) to palette[f], and the result  *)
(* has no other keys: words past the declared cell count are padding, and  *)
(* cells a short array does not reach are absent.                          *)
C26_UnpackPlacesEveryField ==
    call.op = "unpack_packed_array" =>
        LET n == ExaminedCount(call.words, call.bits, call.size)
            State(i) == call.palette[FieldValue(call.words, i, call.bits) + 1]
            Coords(i) == index_to_coords(call.size, i).value
        IN  (\A i \in 0 .. (n - 1) :
                 FieldValue(call.words, i, call.bits) < Len(call.palette)) =>
                /\ IsOk(call.result)
                /\ DOMAIN call.result.value =
                       { Coords(i) : i \in { j \in 0 .. (n - 1) : State(j) # Air } }
                /\ \A i \in 0 .. (n - 1) :
                       State(i) # Air => call.result.value[Coords(i)] = State(i)

----------------------------------------------------------------------------
(* Properties of Region::parse_palette                                     *)

(* a block-state compound BlockState::new_from_nbt accepts *)
WellFormedState(e) ==
    /\ e.kind = "Compound"
    /\ e.name.kind = "String"
    /\ e.properties.kind \in {"Compound", "Missing"}

(* the normalized state of a well-formed block-state compound *)
NormalizedState(e) ==
    [block |-> IF ContainsColon(e.name.text)
               THEN Lowered(e.name.text)
               ELSE MinecraftPrefix \o Lowered(e.name.text),
     properties |-> { <<f[1], f[2].text>> :
                          f \in { g \in e.properties.entries : g[2].kind = "String" } }]

WrongTagErrors == { "BlockState.WrongTag(BlockStatePalette)", "BlockState.WrongTag(Properties)" }

(* the palette is returned whole when every element is well formed *)
WholePaletteReturned ==
    (call.op = "parse_palette" /\ \A k \in DOMAIN call.items : WellFormedState(call.items[k])) =>
        /\ IsOk(call.result)
        /\ Len(call.result.value) = Len(call.items)
        /\ \A k \in DOMAIN call.items : call.result.value[k] = NormalizedState(call.items[k])

(* C27 as stated: when every element of the list is a well-formed          *)
(* block-state compound parse_palette returns a list of the same length in *)
(* the same order, element k the normalized state of list element k; when  *)
(* any element is not a compound the result is Err(WrongTag), with no      *)
(* partial palette, and Region::new_from_nbt fails with                    *)
(* BlockStateParseError without producing a Region.                        *)
C27_ParsePaletteAllOrNothing ==
    /\ WholePaletteReturned
    /\ (call.op = "parse_palette" /\ \E k \in DOMAIN call.items : call.items[k].kind # "Compound") =>
           /\ call.result.status = "err"
           /\ call.result.error \in WrongTagErrors
    /\ (call.op = "new_from_nbt_of_palette" /\
            \E k \in DOMAIN call.items : call.items[k].kind # "Compound") =>
           call.result = Err("Region.BlockStateParseError")

(* C27 amended: the whole palette is returned when every element is well   *)
(* formed; otherwise the first element that is not a well-formed compound  *)
(* decides the error, Err(WrongTag(BlockStatePalette)) when it is not a    *)
(* compound and the error of BlockState::new_from_nbt when it is an        *)
(* ill-formed compound; in both cases no partial palette is returned and   *)
(* Region::new_from_nbt fails with BlockStateParseError.                   *)
C27_FirstBadElementDecides ==
    /\ WholePaletteReturned
    /\ \A k \in DOMAIN call.items :
           (/\ call.op \in {"parse_palette", "new_from_nbt_of_palette"}
            /\ ~WellFormedState(call.items[k])
            /\ \A j \in 1 .. (k - 1) : WellFormedState(call.items[j])) =>
               IF call.op = "new_from_nbt_of_palette"
               THEN call.result = Err("Region.BlockStateParseError")
               ELSE /\ call.result.status = "err"
                    /\ call.items[k].kind # "Compound" =>
                           call.result.error = "BlockState.WrongTag(BlockStatePalette)"
                    /\ call.items[k].kind = "Compound" =>
                           call.result.error \in { "BlockState.WrongTag(Properties)",
                                                   "BlockState.NonexistentTag(Name)" }

(* two block-state compounds followed by a tag that is no compound *)
C27_Witness ==
    /\ call.op = "parse_palette"
    /\ Len(call.items) = 3
    /\ WellFormedState(call.items[1])
    /\ WellFormedState(call.items[2])
    /\ call.items[3].kind = "Int"
    /\ call.result = Err("BlockState.WrongTag(BlockStatePalette)")

----------------------------------------------------------------------------
(* Properties of Region::index_to_coords on a size with negative           *)
(* components                                                              *)

(* the position of index i in a size taken by magnitude *)
PositionByMagnitude(sz, i) ==
    <<(i % (Abs(sz[1]) * Abs(sz[3]))) % Abs(sz[1]),
      i \div (Abs(sz[1]) * Abs(sz[3])),
      (i % (Abs(sz[1]) * Abs(sz[3]))) \div Abs(sz[1])>>

(* C28: for a size s with no zero component, any of them negative, and an  *)
(* index i < |s.x*s.y*s.z|, index_to_coords(s, i) is                       *)
(* index_to_coords((|s.x|,|s.y|,|s.z|), i), e.g. (2,-3,3) and 9 give       *)
(* (1,1,1); decoding with such a declared Size places field i there.       *)
C28_NegativeSizeByMagnitude ==
    /\ (call.op = "index_to_coords_of_signed_size" /\ call.index < VecVolume(call.size)) =>
           call.result = Some(PositionByMagnitude(call.size, call.index))
    /\ (call.op = "index_to_coords_of_signed_size" /\ call.size = <<2, -3, 3>> /\ call.index = 9) =>
           call.result = Some(<<1, 1, 1>>)
    /\ call.op = "unpack_of_signed_size" =>
           /\ IsOk(call.result)
           /\ DOMAIN call.result.value =
                  { PositionByMagnitude(call.size, i) :
                        i \in { j \in 0 .. (ExaminedCount(call.words, 2, call.size) - 1) :
                                    FieldValue(call.words, j, 2) = 1 } }

----------------------------------------------------------------------------
(* Properties of Region::volume()                                          *)

(* C29: for a fixed declared volume and a fixed set of stored keys the     *)
(* fold of expand_to_fit over the keys gives the same Volume, origin and   *)
(* signed size, in whatever order the hash map yields the keys, so the     *)
(* Position and Size to_nbt writes do not depend on that order.            *)
C29_VolumeIndependentOfKeyOrder ==
    /\ \A first, second \in RegionVolume(region) :
           /\ origin(first) = origin(second)
           /\ size(first) = size(second)
    /\ IsOk(nbt) =>
           \A vol \in RegionVolume(region) :
               /\ nbt.value.compound.position = VecTag(origin(vol))
               /\ nbt.value.compound.size = VecTag(size(vol))

----------------------------------------------------------------------------
(* Properties of the palette lookups of Region::new_from_nbt               *)

(* C30: for every region compound with a palette of n >= 1 states, any     *)
(* word array and any declared Size, every field value unpack_packed_array *)
(* uses as a palette index is < n, so Region::new_from_nbt returns a       *)
(* Region or a RegionParseError and never aborts on palette[palette_index]. *)
C30_DecodeNeverOverrunsPalette ==
    (call.op = "new_from_nbt_of_document" /\ call.doc.palette.items # <<>>) =>
        /\ phase = "parsed" \/ (phase = "failed" /\ decoded.status = "err")
        /\ LET bits == calculate_bits(Len(call.doc.palette.items))
               words == call.doc.block_states.words
           IN  \A i \in 0 .. (ExaminedCount(words, bits, call.doc.size.vec) - 1) :
                   FieldValue(words, i, bits) < Len(call.doc.palette.items)

====
